---- MODULE Spec2Model ----
(***************************************************************************)
(* Pallet layout optimisation: orientation enumeration, best-orientation   *)
(* selection with tie-breaks, the two-box combination heuristic and the    *)
(* group aggregation (pallet_optimizer.py, optimizer_workflow.py).         *)
(*                                                                         *)
(* The functions of the program are pure; each is modelled by an operator  *)
(* computed the way the code computes it, and by actions that run it on    *)
(* inputs drawn from bounded sets.  Every specification below shares the   *)
(* same variables; a specification leaves the variables of the other       *)
(* operations at their idle values.                                        *)
(***************************************************************************)
EXTENDS Integers, Sequences, FiniteSets, TLC

VARIABLES
    pc,             \* position of the running operation
    pallet_length,  \* pallet length, mm
    pallet_width,   \* pallet width, mm
    overhang,       \* allowed overhang, mm
    height_limit,   \* height limit, mm (find_best_orientation, evaluate_combination_pair)
    ret,            \* the value returned (or the exception raised)
    dims_mm,        \* find_best_orientation: the dimension triple
    idx,            \* find_best_orientation: index of the next orientation
    best,           \* find_best_orientation: the local `best`
    outcome,        \* find_best_orientation: what the last iteration did
    dims_a,         \* evaluate_combination_pair: first box
    dims_b,         \* evaluate_combination_pair: second box
    dims_list,      \* evaluate_combination_for_group: the boxes of the group
    height_limits,  \* the configured limits (group, metrics and table operations)
    results,        \* evaluate_combination_for_group: the local `results`
    lim_idx,        \* index of the next limit (group and metrics operations)
    pair_calls,     \* evaluate_combination_for_group: calls of the pair evaluator
    df_raw,         \* process_dataframe: the input table, a sequence of rows
    pallet_id_column, \* process_dataframe: TRUE when a pallet-id column is given
    metrics_map,    \* process_dataframe: row index -> BoxMetrics
    errors,         \* process_dataframe: row index -> message
    row_i,          \* process_dataframe: index of the next row of the first loop
    sorted_dims,    \* compute_box_metrics: the local `sorted_dims`
    best_by_height, \* compute_box_metrics: the local `best_by_height`
    raw_value,      \* parse_dimension_value: the cell
    parsed_cm,      \* the value parsed from the cell, cm
    converted_mm,   \* cm_to_mm of the parsed value
    rectangles,     \* the rectangles drawn for the last result
    app_result      \* app.py main: the combination column and combination_details

palletVars == <<pallet_length, pallet_width, overhang>>
bestVars == <<dims_mm, idx, best, outcome>>
pairVars == <<dims_a, dims_b>>
groupVars == <<dims_list, height_limits, results, lim_idx, pair_calls>>
frameVars == <<df_raw, pallet_id_column, metrics_map, errors, row_i>>
metricsVars == <<sorted_dims, best_by_height>>
convertVars == <<raw_value, parsed_cm, converted_mm>>

vars == <<pc, palletVars, height_limit, ret, bestVars, pairVars, groupVars,
          frameVars, metricsVars, convertVars, rectangles, app_result>>

(***************************************************************************)
(* Bounds of the model.                                                    *)
(***************************************************************************)
MaxDim == 3
MaxPalletLength == 4
MaxPalletWidth == 3
MaxOverhang == 1
MaxLimit == 4
MaxPairDim == 4
MaxGroup == 3
MaxLimits == 2
MaxRows == 3
MaxText == 3
MaxHundredths == 1250
MaxCm == 20

(***************************************************************************)
(* Program constants (optimizer_workflow.py).                              *)
(***************************************************************************)
DEFAULT_PALLET_LENGTH == 1200
DEFAULT_PALLET_WIDTH == 800
DEFAULT_PALLET_HEIGHT_LIMITS == <<1800, 1700>>
DEFAULT_OVERHANG == 30

(***************************************************************************)
(* Values.                                                                 *)
(***************************************************************************)
\* Python's None.
None == [kind |-> "None"]

\* An exception that leaves the function (ZeroDivisionError).
Raised == [kind |-> "ZeroDivisionError"]

\* No call made yet.
NoValue == [kind |-> "NoValue"]

\* The variables of an operation that is not running.
BestIdle == dims_mm = NoValue /\ idx = 0 /\ best = NoValue /\ outcome = NoValue
PairIdle == dims_a = NoValue /\ dims_b = NoValue
GroupIdle ==
    /\ dims_list = NoValue /\ height_limits = NoValue /\ results = NoValue
    /\ lim_idx = 0 /\ pair_calls = 0
FrameIdle ==
    /\ df_raw = NoValue /\ pallet_id_column = FALSE /\ metrics_map = NoValue
    /\ errors = NoValue /\ row_i = 0
MetricsIdle == sorted_dims = NoValue /\ best_by_height = NoValue
ConvertIdle == raw_value = NoValue /\ parsed_cm = NoValue /\ converted_mm = 0
DrawIdle == rectangles = NoValue
AppIdle == app_result = NoValue

\* math.floor(a / b) for integers a and b, b /= 0.
FloorDiv(a, b) == IF b > 0 THEN a \div b ELSE (0 - a) \div (0 - b)

Max2(a, b) == IF a >= b THEN a ELSE b

\* Python's tuple comparison a < b on triples.
TupleLess(a, b) ==
    \/ a[1] < b[1]
    \/ a[1] = b[1] /\ a[2] < b[2]
    \/ a[1] = b[1] /\ a[2] = b[2] /\ a[3] < b[3]

\* SortedTuples in descending order.
RECURSIVE SortedTuplesDescending(_)
SortedTuplesDescending(S) ==
    IF S = {} THEN <<>>
    ELSE LET m == CHOOSE x \in S : \A y \in S : x = y \/ TupleLess(y, x)
         IN  <<m>> \o SortedTuplesDescending(S \ {m})

\* sorted(S) for a finite set S of triples.
RECURSIVE SortedTuples(_)
SortedTuples(S) ==
    IF S = {} THEN <<>>
    ELSE LET m == CHOOSE x \in S : \A y \in S : x = y \/ TupleLess(x, y)
         IN  <<m>> \o SortedTuples(S \ {m})

\* PermutationSet holding the three rotations only.
PermutationSetRotations(values) ==
    { <<values[1], values[2], values[3]>>, <<values[2], values[3], values[1]>>,
      <<values[3], values[1], values[2]>> }

\* itertools.permutations(values, 3) collected in a set.
PermutationSet(values) ==
    { <<values[p[1]], values[p[2]], values[p[3]]>> :
        p \in { q \in [1..3 -> 1..3] : q[1] # q[2] /\ q[1] # q[3] /\ q[2] # q[3] } }

\* unique_permutations without the sort: the distinct permutations in the
\* order in which itertools.permutations yields them.
unique_permutationsInputOrder(values) ==
    LET all == << <<values[1], values[2], values[3]>>,
                  <<values[1], values[3], values[2]>>,
                  <<values[2], values[1], values[3]>>,
                  <<values[2], values[3], values[1]>>,
                  <<values[3], values[1], values[2]>>,
                  <<values[3], values[2], values[1]>> >>
        firsts == { i \in 1..6 : \A j \in 1..(i - 1) : all[j] # all[i] }
    IN  [n \in 1..Cardinality(firsts) |->
            all[CHOOSE i \in firsts : Cardinality({ j \in firsts : j <= i }) = n]]

unique_permutations(values) == SortedTuples(PermutationSet(values))

(***************************************************************************)
(* find_best_orientation.                                                  *)
(***************************************************************************)
OrientationSummary(orientation, per_layer, layers, total, grid) ==
    [kind |-> "summary", orientation |-> orientation, per_layer |-> per_layer,
     layers |-> layers, total |-> total, grid |-> grid]

\* EvaluateOrientation with the fit test written `< 0`: an orientation with
\* a grid count of zero gets a summary.
EvaluateOrientationZeroGrid(orientation, max_length, max_width, limit) ==
    LET length == orientation[1]
        width  == orientation[2]
        height == orientation[3]
        fit_length == IF length # 0 THEN FloorDiv(max_length, length) ELSE 0
        fit_width  == IF width # 0 THEN FloorDiv(max_width, width) ELSE 0
    IN  IF height > limit THEN [kind |-> "skip", at |-> "height"]
        ELSE IF fit_length < 0 \/ fit_width < 0
        THEN [kind |-> "skip", at |-> "fit"]
        ELSE IF height = 0 THEN Raised
        ELSE LET layers == FloorDiv(limit, height)
                 per_layer == fit_length * fit_width
             IN  IF layers <= 0 THEN [kind |-> "skip", at |-> "layers"]
                 ELSE OrientationSummary(orientation, per_layer, layers,
                                         per_layer * layers,
                                         <<fit_length, fit_width>>)

\* EvaluateOrientation without the test of the layer count.
EvaluateOrientationNoLayerTest(orientation, max_length, max_width, limit) ==
    LET length == orientation[1]
        width  == orientation[2]
        height == orientation[3]
        fit_length == IF length # 0 THEN FloorDiv(max_length, length) ELSE 0
        fit_width  == IF width # 0 THEN FloorDiv(max_width, width) ELSE 0
    IN  IF height > limit THEN [kind |-> "skip", at |-> "height"]
        ELSE IF fit_length <= 0 \/ fit_width <= 0
        THEN [kind |-> "skip", at |-> "fit"]
        ELSE IF height = 0 THEN Raised
        ELSE LET layers == FloorDiv(limit, height)
                 per_layer == fit_length * fit_width
             IN  OrientationSummary(orientation, per_layer, layers,
                                    per_layer * layers,
                                    <<fit_length, fit_width>>)

\* EvaluateOrientation dividing by the length and the width unguarded: a
\* zero side raises ZeroDivisionError.
EvaluateOrientationUnguarded(orientation, max_length, max_width, limit) ==
    LET length == orientation[1]
        width  == orientation[2]
        height == orientation[3]
    IN  IF height > limit THEN [kind |-> "skip", at |-> "height"]
        ELSE IF length = 0 \/ width = 0 THEN Raised
        ELSE LET fit_length == FloorDiv(max_length, length)
                 fit_width  == FloorDiv(max_width, width)
             IN  IF fit_length <= 0 \/ fit_width <= 0
                 THEN [kind |-> "skip", at |-> "fit"]
                 ELSE IF height = 0 THEN Raised
                 ELSE LET layers == FloorDiv(limit, height)
                          per_layer == fit_length * fit_width
                      IN  IF layers <= 0 THEN [kind |-> "skip", at |-> "layers"]
                          ELSE OrientationSummary(orientation, per_layer, layers,
                                                  per_layer * layers,
                                                  <<fit_length, fit_width>>)

\* EvaluateOrientation with an exclusive height bound.
EvaluateOrientationStrictHeight(orientation, max_length, max_width, limit) ==
    LET length == orientation[1]
        width  == orientation[2]
        height == orientation[3]
        fit_length == IF length # 0 THEN FloorDiv(max_length, length) ELSE 0
        fit_width  == IF width # 0 THEN FloorDiv(max_width, width) ELSE 0
    IN  IF height >= limit THEN [kind |-> "skip", at |-> "height"]
        ELSE IF fit_length <= 0 \/ fit_width <= 0
        THEN [kind |-> "skip", at |-> "fit"]
        ELSE IF height = 0 THEN Raised
        ELSE LET layers == FloorDiv(limit, height)
                 per_layer == fit_length * fit_width
             IN  IF layers <= 0 THEN [kind |-> "skip", at |-> "layers"]
                 ELSE OrientationSummary(orientation, per_layer, layers,
                                         per_layer * layers,
                                         <<fit_length, fit_width>>)

\* EvaluateOrientation with the quotient of the layer count inverted
\* (height / limit): only a box as tall as the limit gets a layer.
EvaluateOrientationInvertedLayers(orientation, max_length, max_width, limit) ==
    LET length == orientation[1]
        width  == orientation[2]
        height == orientation[3]
        fit_length == IF length # 0 THEN FloorDiv(max_length, length) ELSE 0
        fit_width  == IF width # 0 THEN FloorDiv(max_width, width) ELSE 0
    IN  IF height > limit THEN [kind |-> "skip", at |-> "height"]
        ELSE IF fit_length <= 0 \/ fit_width <= 0
        THEN [kind |-> "skip", at |-> "fit"]
        ELSE IF height = 0 THEN Raised
        ELSE LET layers == FloorDiv(height, limit)
                 per_layer == fit_length * fit_width
             IN  IF layers <= 0 THEN [kind |-> "skip", at |-> "layers"]
                 ELSE OrientationSummary(orientation, per_layer, layers,
                                         per_layer * layers,
                                         <<fit_length, fit_width>>)

\* One iteration of the loop up to the construction of `summary`: the
\* summary, or "skip" with the `continue` taken, or the division by zero of
\* height_limit / height.
EvaluateOrientation(orientation, max_length, max_width, limit) ==
    LET length == orientation[1]
        width  == orientation[2]
        height == orientation[3]
        fit_length == IF length # 0 THEN FloorDiv(max_length, length) ELSE 0
        fit_width  == IF width # 0 THEN FloorDiv(max_width, width) ELSE 0
    IN  IF height > limit THEN [kind |-> "skip", at |-> "height"]
        ELSE IF fit_length <= 0 \/ fit_width <= 0
        THEN [kind |-> "skip", at |-> "fit"]
        ELSE IF height = 0 THEN Raised
        ELSE LET layers == FloorDiv(limit, height)
                 per_layer == fit_length * fit_width
             IN  IF layers <= 0 THEN [kind |-> "skip", at |-> "layers"]
                 ELSE OrientationSummary(orientation, per_layer, layers,
                                         per_layer * layers,
                                         <<fit_length, fit_width>>)

\* Supersedes letting a candidate tied on every criterion replace the best.
SupersedesTiedReplaces(summary, cur) ==
    IF cur = None THEN TRUE
    ELSE IF summary.total > cur.total THEN TRUE
    ELSE IF summary.total = cur.total
    THEN \/ summary.layers > cur.layers
         \/ summary.layers = cur.layers /\ summary.per_layer > cur.per_layer
         \/ /\ summary.layers = cur.layers
            /\ summary.per_layer = cur.per_layer
            /\ summary.orientation[3] <= cur.orientation[3]
    ELSE FALSE

\* Supersedes keeping the first candidate whatever comes later.
SupersedesFirstOnly(summary, cur) == cur = None

\* Supersedes without the last tie-break (the smaller height).
SupersedesNoHeightTie(summary, cur) ==
    IF cur = None THEN TRUE
    ELSE IF summary.total > cur.total THEN TRUE
    ELSE IF summary.total = cur.total
    THEN \/ summary.layers > cur.layers
         \/ summary.layers = cur.layers /\ summary.per_layer > cur.per_layer
    ELSE FALSE

\* Supersedes preferring the larger layer grid to the larger total.
SupersedesPerLayerFirst(summary, cur) ==
    IF cur = None THEN TRUE
    ELSE IF summary.per_layer > cur.per_layer THEN TRUE
    ELSE IF summary.per_layer = cur.per_layer
    THEN \/ summary.total > cur.total
         \/ summary.total = cur.total /\ summary.layers > cur.layers
    ELSE FALSE

\* The comparisons that make `summary` the new `best`.
Supersedes(summary, cur) ==
    IF cur = None THEN TRUE
    ELSE IF summary.total > cur.total THEN TRUE
    ELSE IF summary.total = cur.total
    THEN \/ summary.layers > cur.layers
         \/ summary.layers = cur.layers /\ summary.per_layer > cur.per_layer
         \/ /\ summary.layers = cur.layers
            /\ summary.per_layer = cur.per_layer
            /\ summary.orientation[3] < cur.orientation[3]
    ELSE FALSE

\* The loop from orientation i on, with `cur` as the current best.
RECURSIVE ScanOrientations(_, _, _, _, _, _)
ScanOrientations(orients, i, cur, max_length, max_width, limit) ==
    IF i > Len(orients) THEN cur
    ELSE LET e == EvaluateOrientation(orients[i], max_length, max_width, limit)
         IN  IF e = Raised THEN Raised
             ELSE IF e.kind = "summary" /\ Supersedes(e, cur)
             THEN ScanOrientations(orients, i + 1, e, max_length, max_width, limit)
             ELSE ScanOrientations(orients, i + 1, cur, max_length, max_width, limit)

find_best_orientation(dims, p_length, p_width, limit, ovh) ==
    ScanOrientations(unique_permutations(dims), 1, None,
                     p_length + ovh, p_width + ovh, limit)

(***************************************************************************)
(* Inputs.                                                                 *)
(***************************************************************************)
Triples(lo, hi) == { <<a, b, c>> : a \in lo..hi, b \in lo..hi, c \in lo..hi }

\* The triples of the documented scenarios.
ScenarioTriples == { <<400, 300, 200>>, <<2000, 2000, 2000>> }

Pallet(l, w, o) == [length |-> l, width |-> w, overhang |-> o]

SmallPallets ==
    { Pallet(l, w, o) : l \in 3..MaxPalletLength, w \in 2..MaxPalletWidth,
                        o \in 0..MaxOverhang }

\* The pallets of the pair evaluator's runs: the smallest with every
\* overhang, and the largest.
PairPallets ==
    { Pallet(MaxPalletLength - 1, MaxPalletWidth - 1, o) : o \in 0..MaxOverhang }
        \cup { Pallet(MaxPalletLength, MaxPalletWidth, 0) }

DefaultPallet ==
    Pallet(DEFAULT_PALLET_LENGTH, DEFAULT_PALLET_WIDTH, DEFAULT_OVERHANG)

DefaultLimits ==
    { DEFAULT_PALLET_HEIGHT_LIMITS[i] : i \in 1..Len(DEFAULT_PALLET_HEIGHT_LIMITS) }

(***************************************************************************)
(* Specification of find_best_orientation, one action per loop iteration.  *)
(***************************************************************************)
BestInit ==
    /\ \/ /\ dims_mm \in Triples(-1, MaxDim)
          /\ \E p \in SmallPallets :
                /\ pallet_length = p.length
                /\ pallet_width = p.width
                /\ overhang = p.overhang
          /\ height_limit \in (-1)..MaxLimit
       \/ /\ dims_mm \in ScenarioTriples
          /\ pallet_length = DefaultPallet.length
          /\ pallet_width = DefaultPallet.width
          /\ overhang = DefaultPallet.overhang
          /\ height_limit \in DefaultLimits
    /\ pc = "loop"
    /\ idx = 1
    /\ best = None
    /\ outcome = NoValue
    /\ ret = NoValue
    /\ ConvertIdle
    /\ DrawIdle
    /\ AppIdle
    /\ MetricsIdle
    /\ PairIdle
    /\ GroupIdle
    /\ FrameIdle

\* for orientation in unique_permutations(dims_mm): ...
BestIterate ==
    /\ pc = "loop"
    /\ idx <= Len(unique_permutations(dims_mm))
    /\ LET orientation == unique_permutations(dims_mm)[idx]
           e == EvaluateOrientation(orientation, pallet_length + overhang,
                                    pallet_width + overhang, height_limit)
       IN  IF e = Raised
           THEN /\ pc' = "raised"
                /\ ret' = Raised
                /\ outcome' = [orientation |-> orientation, result |-> e,
                               replaced |-> FALSE]
                /\ UNCHANGED <<idx, best>>
           ELSE /\ outcome' = [orientation |-> orientation, result |-> e,
                               replaced |-> e.kind = "summary" /\ Supersedes(e, best)]
                /\ best' = IF e.kind = "summary" /\ Supersedes(e, best)
                           THEN e ELSE best
                /\ idx' = idx + 1
                /\ UNCHANGED <<pc, ret>>
    /\ UNCHANGED <<app_result, convertVars, rectangles, metricsVars, dims_mm, palletVars, height_limit, pairVars, groupVars, frameVars>>

\* return best
BestReturn ==
    /\ pc = "loop"
    /\ idx > Len(unique_permutations(dims_mm))
    /\ pc' = "done"
    /\ ret' = best
    /\ UNCHANGED <<app_result, convertVars, rectangles, metricsVars, palletVars, height_limit, bestVars, pairVars, groupVars, frameVars>>

\* build_orientation_grid placing the columns a box width apart and the
\* rows a box length apart.
build_orientation_gridSwappedStep(summary) ==
    LET length == summary.orientation[1]
        width  == summary.orientation[2]
        grid_x == summary.grid[1]
        grid_y == summary.grid[2]
    IN  [n \in 1..(grid_x * grid_y) |->
            <<((n - 1) \div grid_y) * width, ((n - 1) % grid_y) * length,
              length, width>>]

\* The rectangles (x, y, width, height) of one layer, in the order of the
\* loops: ix outside, iy inside.
build_orientation_grid(summary) ==
    LET length == summary.orientation[1]
        width  == summary.orientation[2]
        grid_x == summary.grid[1]
        grid_y == summary.grid[2]
    IN  [n \in 1..(grid_x * grid_y) |->
            <<((n - 1) \div grid_y) * length, ((n - 1) % grid_y) * width,
              length, width>>]

\* The layer of the returned summary is drawn.
BestDraw ==
    /\ pc = "done"
    /\ ret # None
    /\ rectangles' = build_orientation_grid(ret)
    /\ pc' = "drawn"
    /\ UNCHANGED <<app_result, convertVars, metricsVars, palletVars, height_limit, ret, bestVars,
                   pairVars, groupVars, frameVars>>

BestNext == BestIterate \/ BestReturn \/ BestDraw

SpecBest == BestInit /\ [][BestNext]_vars

(***************************************************************************)
(* Properties of find_best_orientation (checked under SpecBest).           *)
(***************************************************************************)
Orientations == PermutationSet(dims_mm)

max_length == pallet_length + overhang
max_width == pallet_width + overhang

\* The grid counts and the layer count of an orientation, as the
\* specification words them: floor of the quotient, zero for a zero side.
GridX(o) == IF o[1] = 0 THEN 0 ELSE FloorDiv(max_length, o[1])
GridY(o) == IF o[2] = 0 THEN 0 ELSE FloorDiv(max_width, o[2])
LayersOf(o) == IF o[3] = 0 THEN 0 ELSE FloorDiv(height_limit, o[3])
TotalOf(o) == GridX(o) * GridY(o) * LayersOf(o)

\* height <= limit and both grid counts >= 1.
FitsFootprint(o) == o[3] <= height_limit /\ GridX(o) >= 1 /\ GridY(o) >= 1

\* ... and at least one layer (the orientations that get a summary).
Fits(o) == FitsFootprint(o) /\ LayersOf(o) >= 1

Returned == pc = "done"

IsScenario1(limit) ==
    /\ dims_mm = <<400, 300, 200>>
    /\ pallet_length = 1200 /\ pallet_width = 800 /\ overhang = 30
    /\ height_limit = limit

\* Position of an orientation in the enumeration order.
PositionOf(o) ==
    CHOOSE i \in 1..Len(unique_permutations(dims_mm)) :
        unique_permutations(dims_mm)[i] = o

\* C1: the total of the returned summary is at least the total
\* grid_x * grid_y * layers of every distinct orientation that fits (height
\* within the limit, both grid counts at least 1); for (400,300,200) on
\* 1200x800, overhang 30, limit 1800 it is at least 3 * 2 * 9.
C1_TotalIsMaximal ==
    (Returned /\ ret.kind = "summary") =>
        /\ \A o \in Orientations : FitsFootprint(o) => ret.total >= TotalOf(o)
        /\ IsScenario1(1800) => ret.total >= (1230 \div 400) * (830 \div 300) * (1800 \div 200)

\* C1 witness: a summary was returned that replaced an earlier candidate of
\* a smaller positive total.
C1_Witness ==
    /\ Returned /\ ret.kind = "summary"
    /\ \E o \in Orientations :
          /\ Fits(o)
          /\ TotalOf(o) < ret.total
          /\ PositionOf(o) < PositionOf(ret.orientation)

\* Lexicographic order on the ranking key (total, layers, per_layer, -height).
KeyLeq(k1, k2) ==
    \/ k1[1] < k2[1]
    \/ k1[1] = k2[1] /\ k1[2] < k2[2]
    \/ k1[1] = k2[1] /\ k1[2] = k2[2] /\ k1[3] < k2[3]
    \/ k1[1] = k2[1] /\ k1[2] = k2[2] /\ k1[3] = k2[3] /\ k1[4] <= k2[4]

KeyOf(o) == <<TotalOf(o), LayersOf(o), GridX(o) * GridY(o), 0 - o[3]>>

\* C2: the returned summary is a global lexicographic maximum on
\* (total, layers, per_layer, -height) over all fitting orientations,
\* wherever the candidates stand in the enumeration order.
C2_TieBreakIsGlobalMaximum ==
    (Returned /\ ret.kind = "summary") =>
        \A o \in Orientations :
            Fits(o) => KeyLeq(KeyOf(o),
                              <<ret.total, ret.layers, ret.per_layer,
                                0 - ret.orientation[3]>>)

\* C2 witness: the winner came after a candidate tied with it on total,
\* layers and per-layer count and was preferred for its smaller height.
C2_Witness ==
    /\ Returned /\ ret.kind = "summary"
    /\ \E o \in Orientations :
          /\ Fits(o)
          /\ TotalOf(o) = ret.total
          /\ LayersOf(o) = ret.layers
          /\ o[3] > ret.orientation[3]
          /\ PositionOf(o) < PositionOf(ret.orientation)

\* C2 also covers the first tie-break: a winner that came after a candidate
\* of the same total and fewer layers.
C2_LayersCase ==
    /\ Returned /\ ret.kind = "summary"
    /\ \E o \in Orientations :
          /\ Fits(o)
          /\ TotalOf(o) = ret.total
          /\ LayersOf(o) < ret.layers
          /\ PositionOf(o) < PositionOf(ret.orientation)

SummaryWellFormed(s) ==
    /\ s.total = s.per_layer * s.layers
    /\ s.per_layer = s.grid[1] * s.grid[2]
    /\ s.per_layer > 0
    /\ s.layers > 0
    /\ s.total > 0

\* C3: every summary returned, also for triples with zero or negative
\* components and for any height limit, has total = per_layer * layers,
\* per_layer = grid[0] * grid[1], and per_layer, layers, total > 0.
C3_SummaryInvariant ==
    /\ (best # None /\ best # NoValue) => SummaryWellFormed(best)
    /\ (Returned /\ ret.kind = "summary") => SummaryWellFormed(ret)

\* C3 witness: a summary returned for a triple with a negative component.
C3_Witness ==
    /\ Returned /\ ret.kind = "summary"
    /\ \E i \in 1..3 : dims_mm[i] < 0

C4_PositiveCase ==
    /\ Returned /\ ret = None
    /\ \A i \in 1..3 : dims_mm[i] > 0
    /\ \E o \in Orientations : o[3] <= height_limit
    /\ \E o \in Orientations : GridX(o) >= 1 /\ GridY(o) >= 1

C6_ZeroSideNoDivisionError ==
    (outcome # NoValue /\ (outcome.orientation[1] = 0 \/ outcome.orientation[2] = 0)) =>
        /\ outcome.result.kind = "skip"
        /\ outcome.result.at \in {"height", "fit"}
        /\ ~ outcome.replaced
        /\ pc # "raised"

\* C6 witness: an orientation of zero length, within the height limit, was
\* evaluated and rejected at the fit test.
C6_Witness ==
    /\ outcome # NoValue
    /\ outcome.orientation[1] = 0
    /\ outcome.orientation[3] <= height_limit
    /\ outcome.result.kind = "skip"
    /\ outcome.result.at = "fit"

\* The number of different values among the three dimensions.
DistinctValues == Cardinality({dims_mm[1], dims_mm[2], dims_mm[3]})

\* C14: for a triple of positive integers the loop over
\* unique_permutations runs over exactly one orientation when the three
\* values are equal, three when exactly two are equal, and six when all
\* are distinct.
C14_OrientationCount ==
    (pc = "done" /\ \A i \in 1..3 : dims_mm[i] > 0) =>
        /\ idx - 1 = Len(unique_permutations(dims_mm))
        /\ DistinctValues = 1 => idx - 1 = 1
        /\ DistinctValues = 2 => idx - 1 = 3
        /\ DistinctValues = 3 => idx - 1 = 6

\* C14 witness: the loop has run over the six orientations of a triple of
\* three different positive values.
C14_Witness ==
    /\ pc = "done"
    /\ \A i \in 1..3 : dims_mm[i] > 0
    /\ DistinctValues = 3
    /\ idx - 1 = 6

\* The cases of one and of three orientations.
C14_CubeCase ==
    /\ pc = "done"
    /\ \A i \in 1..3 : dims_mm[i] > 0
    /\ DistinctValues = 1
    /\ idx - 1 = 1

C14_TwoEqualCase ==
    /\ pc = "done"
    /\ \A i \in 1..3 : dims_mm[i] > 0
    /\ DistinctValues = 2
    /\ idx - 1 = 3

\* a before b in the lexicographic order: smaller at the first position
\* where they differ.
LexBefore(a, b) ==
    \E k \in 1..3 : a[k] < b[k] /\ \A j \in 1..(k - 1) : a[j] = b[j]

\* e holds every value as often as d does.
IsRearrangement(e, d) ==
    \A v \in {d[1], d[2], d[3], e[1], e[2], e[3]} :
        Cardinality({ i \in 1..3 : e[i] = v }) = Cardinality({ i \in 1..3 : d[i] = v })

\* C15: the sequence of unique_permutations is strictly ascending in the
\* lexicographic order of (length, width, height), hence without
\* duplicates; each element is a rearrangement of the three input values
\* and every rearrangement is an element.  The loop visits the elements in
\* that order.
C15_SortedDistinctPermutations ==
    LET seq == unique_permutations(dims_mm)
        values == {dims_mm[1], dims_mm[2], dims_mm[3]}
    IN  /\ \A i, j \in 1..Len(seq) : i < j => LexBefore(seq[i], seq[j])
        /\ \A i \in 1..Len(seq) : IsRearrangement(seq[i], dims_mm)
        /\ \A e \in values \X values \X values :
              IsRearrangement(e, dims_mm) => \E i \in 1..Len(seq) : seq[i] = e
        /\ (pc \in {"loop", "done"} /\ outcome # NoValue) =>
              outcome.orientation = seq[idx - 1]

\* C15 witness: the loop has visited the last of the three orientations of
\* a triple with two equal values, the largest in the order.
C15_Witness ==
    /\ pc = "done"
    /\ DistinctValues = 2
    /\ Len(unique_permutations(dims_mm)) = 3
    /\ outcome.orientation = unique_permutations(dims_mm)[3]
    /\ LexBefore(unique_permutations(dims_mm)[1], outcome.orientation)

\* The grid and the layers of a summary are the floors of the quotients,
\* the overhang added once to each side of the pallet.
GridAndLayersExact(s) ==
    /\ s.grid[1] = (pallet_length + overhang) \div s.orientation[1]
    /\ s.grid[2] = (pallet_width + overhang) \div s.orientation[2]
    /\ s.layers = height_limit \div s.orientation[3]

C16_OneMoreCase ==
    /\ outcome # NoValue
    /\ \A i \in 1..3 : dims_mm[i] > 0
    /\ \/ /\ outcome.orientation[2] = pallet_width + overhang + 1
          /\ outcome.orientation[3] <= height_limit
       \/ outcome.orientation[3] = height_limit + 1
    /\ outcome.result.kind = "skip"

\* A box as long as the pallet plus the overhang fits.
C16_FullLengthCase ==
    /\ outcome # NoValue
    /\ outcome.orientation[1] = pallet_length + overhang
    /\ outcome.result.kind = "summary"
    /\ outcome.result.grid[1] = 1

\* C18: for dims_mm = (400, 300, 200), pallet 1200 x 800, overhang 30 and
\* height limit 1800 the orientation selected is length 300, width 400,
\* height 200, with grid 4 x 2 = 8 boxes per layer, 9 layers and 72 boxes.
C18_ScenarioSelection ==
    (pc = "done" /\ IsScenario1(1800)) =>
        /\ ret # None
        /\ ret.orientation = <<300, 400, 200>>
        /\ ret.grid = <<4, 2>>
        /\ ret.per_layer = 8
        /\ ret.layers = 9
        /\ ret.total = 72

\* C18 witness: the call of the scenario has returned, after an iteration
\* over the orientation (300, 200, 400) with its grid of 4 x 4 that did
\* not become the best.
C18_Witness ==
    /\ IsScenario1(1800)
    /\ outcome # NoValue
    /\ outcome.orientation = <<300, 200, 400>>
    /\ outcome.result.kind = "summary"
    /\ outcome.result.grid = <<4, 4>>
    /\ outcome.result.total = 64
    /\ ~ outcome.replaced
    /\ best.total = 72

\* C18 as stated: the orientation selected in the scenario is length 300,
\* width 200, height 400 with grid 4 x 4 = 16 boxes per layer.
C18_Original ==
    (pc = "done" /\ IsScenario1(1800)) =>
        /\ ret # None
        /\ ret.orientation = <<300, 200, 400>>
        /\ ret.grid = <<4, 4>>
        /\ ret.per_layer = 16

\* Rectangles (x, y, width, height) r and q share no inner point.
Disjoint(r, q) ==
    \/ r[1] + r[3] <= q[1]
    \/ q[1] + q[3] <= r[1]
    \/ r[2] + r[4] <= q[2]
    \/ q[2] + q[4] <= r[2]

\* Rectangle r lies in the footprint of the pallet plus overhang.
InFootprint(r) ==
    /\ r[1] >= 0
    /\ r[2] >= 0
    /\ r[1] + r[3] <= pallet_length + overhang
    /\ r[2] + r[4] <= pallet_width + overhang

\* C23: the rectangles drawn for a returned summary are exactly one per
\* (ix, iy) with 0 <= ix < grid_x and 0 <= iy < grid_y, of the size of the
\* orientation's length and width, at (ix * length, iy * width); all lie in
\* the footprint of the pallet plus overhang, no two overlap, and layers
\* times the orientation's height is at most the height limit.
C23_GridRectangles ==
    pc = "drawn" =>
        LET length == ret.orientation[1]
            width  == ret.orientation[2]
        IN  /\ Len(rectangles) = ret.grid[1] * ret.grid[2]
            /\ \A ix \in 0..(ret.grid[1] - 1) : \A iy \in 0..(ret.grid[2] - 1) :
                  \E n \in 1..Len(rectangles) :
                      rectangles[n] = <<ix * length, iy * width, length, width>>
            /\ \A n \in 1..Len(rectangles) : InFootprint(rectangles[n])
            /\ \A n, m \in 1..Len(rectangles) :
                  n # m => Disjoint(rectangles[n], rectangles[m])
            /\ ret.layers * ret.orientation[3] <= height_limit

\* C23 witness: a layer of at least two columns and two rows of boxes
\* longer than wide was drawn.
C23_Witness ==
    /\ pc = "drawn"
    /\ ret.grid[1] >= 2
    /\ ret.grid[2] >= 2
    /\ ret.orientation[1] > ret.orientation[2]
    /\ Len(rectangles) = ret.grid[1] * ret.grid[2]

\* The loop run step by step returns what the operator computes.
\* Two orientations tied on total, layers, per-layer count and height.
FullyTied(o, q) == KeyOf(o) = KeyOf(q)

\* C26: among fitting orientations tied on total, layers, per-layer count
\* and assigned height, the one returned is the first in the ascending
\* lexicographic enumeration order; and throughout the loop the current
\* best is the first of the orientations already examined that are fully
\* tied with it, so a later fully tied candidate never replaces it.
C26_FirstOfFullyTiedWins ==
    /\ (Returned /\ ret.kind = "summary") =>
          \A o \in Orientations :
              (Fits(o) /\ FullyTied(o, ret.orientation) /\ o # ret.orientation)
                  => LexBefore(ret.orientation, o)
    /\ (pc = "loop" /\ best # None) =>
          \A i \in 1..(idx - 1) :
              LET o == unique_permutations(dims_mm)[i]
              IN  (Fits(o) /\ FullyTied(o, best.orientation))
                      => PositionOf(best.orientation) <= i
    /\ (pc = "loop" /\ outcome # NoValue /\ outcome.replaced) =>
          \A i \in 1..(idx - 2) :
              LET o == unique_permutations(dims_mm)[i]
              IN  ~(Fits(o) /\ FullyTied(o, outcome.orientation))

\* C26 witness: the orientation returned is fully tied with a fitting
\* orientation (w, l, h) that was examined after it and did not replace it.
C26_Witness ==
    /\ Returned /\ ret.kind = "summary"
    /\ \E o \in Orientations :
          /\ Fits(o)
          /\ o = <<ret.orientation[2], ret.orientation[1], ret.orientation[3]>>
          /\ o # ret.orientation
          /\ FullyTied(o, ret.orientation)
          /\ PositionOf(o) > PositionOf(ret.orientation)

\* C26 also covers the loop: a fully tied candidate has just been examined
\* and the best was kept.
C26_KeptCase ==
    /\ pc = "loop" /\ best # None /\ outcome # NoValue
    /\ outcome.result.kind = "summary" /\ ~outcome.replaced
    /\ outcome.orientation # best.orientation
    /\ FullyTied(outcome.orientation, best.orientation)

BestMatchesOperator ==
    pc \in {"done", "raised"} =>
        ret = find_best_orientation(dims_mm, pallet_length, pallet_width,
                                    height_limit, overhang)

(***************************************************************************)
(* evaluate_combination_pair.                                              *)
(***************************************************************************)
\* The result (ok, detail) of the pair evaluator.
PairResult(ok, detail) == [ok |-> ok, detail |-> detail]

Detail(orient_a, orient_b, arrangement) ==
    [orientation_a |-> orient_a, orientation_b |-> orient_b,
     arrangement |-> arrangement]

\* Arrangement with the height test written with `and`: a pair is skipped
\* only when both boxes are too tall.
ArrangementBothTooTall(orient_a, orient_b, max_l, max_w, limit) ==
    LET length_a == orient_a[1]
        width_a  == orient_a[2]
        height_a == orient_a[3]
        length_b == orient_b[1]
        width_b  == orient_b[2]
        height_b == orient_b[3]
    IN  IF height_a > limit /\ height_b > limit THEN "none"
        ELSE IF length_a + length_b <= max_l /\ Max2(width_a, width_b) <= max_w
        THEN "length"
        ELSE IF Max2(length_a, length_b) <= max_l /\ width_a + width_b <= max_w
        THEN "width"
        ELSE IF /\ Max2(length_a, length_b) <= max_l
                /\ Max2(width_a, width_b) <= max_w
                /\ height_a + height_b <= limit
        THEN "stack"
        ELSE "none"

\* Arrangement testing the height of box A only.
ArrangementHeightOfAOnly(orient_a, orient_b, max_l, max_w, limit) ==
    LET length_a == orient_a[1]
        width_a  == orient_a[2]
        height_a == orient_a[3]
        length_b == orient_b[1]
        width_b  == orient_b[2]
        height_b == orient_b[3]
    IN  IF height_a > limit THEN "none"
        ELSE IF length_a + length_b <= max_l /\ Max2(width_a, width_b) <= max_w
        THEN "length"
        ELSE IF Max2(length_a, length_b) <= max_l /\ width_a + width_b <= max_w
        THEN "width"
        ELSE IF /\ Max2(length_a, length_b) <= max_l
                /\ Max2(width_a, width_b) <= max_w
                /\ height_a + height_b <= limit
        THEN "stack"
        ELSE "none"

\* The body of the inner loop for one orientation pair: the tag of the first
\* option that holds, "none" when the pair is skipped or no option holds.
Arrangement(orient_a, orient_b, max_l, max_w, limit) ==
    LET length_a == orient_a[1]
        width_a  == orient_a[2]
        height_a == orient_a[3]
        length_b == orient_b[1]
        width_b  == orient_b[2]
        height_b == orient_b[3]
    IN  IF height_a > limit \/ height_b > limit THEN "none"
        ELSE IF length_a + length_b <= max_l /\ Max2(width_a, width_b) <= max_w
        THEN "length"
        ELSE IF Max2(length_a, length_b) <= max_l /\ width_a + width_b <= max_w
        THEN "width"
        ELSE IF /\ Max2(length_a, length_b) <= max_l
                /\ Max2(width_a, width_b) <= max_w
                /\ height_a + height_b <= limit
        THEN "stack"
        ELSE "none"

\* ScanPairs with the loops exchanged: B's orientations outside, A's inside.
RECURSIVE ScanPairsBOuter(_, _, _, _, _, _, _)
ScanPairsBOuter(orients_a, orients_b, i, j, max_l, max_w, limit) ==
    IF j > Len(orients_b) THEN PairResult(FALSE, None)
    ELSE IF i > Len(orients_a)
    THEN ScanPairsBOuter(orients_a, orients_b, 1, j + 1, max_l, max_w, limit)
    ELSE LET tag == Arrangement(orients_a[i], orients_b[j], max_l, max_w, limit)
         IN  IF tag # "none"
             THEN PairResult(TRUE, Detail(orients_a[i], orients_b[j], tag))
             ELSE ScanPairsBOuter(orients_a, orients_b, i + 1, j, max_l, max_w, limit)

\* The two nested loops from the pair (i, j) on: return at the first pair
\* with an option that holds, (False, None) after the last pair.
RECURSIVE ScanPairs(_, _, _, _, _, _, _)
ScanPairs(orients_a, orients_b, i, j, max_l, max_w, limit) ==
    IF i > Len(orients_a) THEN PairResult(FALSE, None)
    ELSE IF j > Len(orients_b)
    THEN ScanPairs(orients_a, orients_b, i + 1, 1, max_l, max_w, limit)
    ELSE LET tag == Arrangement(orients_a[i], orients_b[j], max_l, max_w, limit)
         IN  IF tag # "none"
             THEN PairResult(TRUE, Detail(orients_a[i], orients_b[j], tag))
             ELSE ScanPairs(orients_a, orients_b, i, j + 1, max_l, max_w, limit)

evaluate_combination_pair(d_a, d_b, p_length, p_width, ovh, limit) ==
    ScanPairs(unique_permutations(d_a), unique_permutations(d_b), 1, 1,
              p_length + ovh, p_width + ovh, limit)

(***************************************************************************)
(* Specification of evaluate_combination_pair: one call on each input.     *)
(***************************************************************************)
PairInit ==
    /\ \/ /\ dims_a \in Triples(1, MaxPairDim)
          /\ dims_b \in Triples(1, MaxPairDim)
          /\ \E p \in PairPallets :
                /\ pallet_length = p.length
                /\ pallet_width = p.width
                /\ overhang = p.overhang
          /\ height_limit \in 1..MaxLimit
       \/ /\ dims_a = <<100, 100, 100>>
          /\ dims_b = <<100, 100, 100>>
          /\ pallet_length = 300
          /\ pallet_width = 300
          /\ overhang = 0
          /\ height_limit = 200
    /\ pc = "call"
    /\ ret = NoValue
    /\ ConvertIdle
    /\ DrawIdle
    /\ AppIdle
    /\ MetricsIdle
    /\ BestIdle
    /\ GroupIdle
    /\ FrameIdle

PairEvaluate ==
    /\ pc = "call"
    /\ ret' = evaluate_combination_pair(dims_a, dims_b, pallet_length,
                                        pallet_width, overhang, height_limit)
    /\ pc' = "done"
    /\ UNCHANGED <<app_result, convertVars, rectangles, metricsVars, palletVars, height_limit, bestVars, pairVars, groupVars, frameVars>>

\* build_combination_rectangles offsetting B along the length in the
\* width arrangement too.
build_combination_rectanglesAlongLength(detail) ==
    LET orient_a == detail.orientation_a
        orient_b == detail.orientation_b
    IN  IF detail.arrangement \in {"length", "width"}
        THEN << <<0, 0, orient_a[1], orient_a[2], "A">>,
                <<orient_a[1], 0, orient_b[1], orient_b[2], "B">> >>
        ELSE << <<0, 0, orient_a[1], orient_a[2], "A">>,
                <<0, 0, orient_b[1], orient_b[2], "B">> >>

\* The rectangles (x, y, width, height, label) of a two-box layout.
build_combination_rectangles(detail) ==
    LET orient_a == detail.orientation_a
        orient_b == detail.orientation_b
    IN  IF detail.arrangement = "length"
        THEN << <<0, 0, orient_a[1], orient_a[2], "A">>,
                <<orient_a[1], 0, orient_b[1], orient_b[2], "B">> >>
        ELSE IF detail.arrangement = "width"
        THEN << <<0, 0, orient_a[1], orient_a[2], "A">>,
                <<0, orient_a[2], orient_b[1], orient_b[2], "B">> >>
        ELSE << <<0, 0, orient_a[1], orient_a[2], "A">>,
                <<0, 0, orient_b[1], orient_b[2], "B">> >>

\* The layout of a feasible pair is drawn.
PairDraw ==
    /\ pc = "done"
    /\ ret.ok
    /\ rectangles' = build_combination_rectangles(ret.detail)
    /\ pc' = "drawn"
    /\ UNCHANGED <<app_result, convertVars, metricsVars, palletVars, height_limit, ret, bestVars,
                   pairVars, groupVars, frameVars>>

PairNext == PairEvaluate \/ PairDraw

SpecPair == PairInit /\ [][PairNext]_vars

(***************************************************************************)
(* Properties of evaluate_combination_pair (checked under SpecPair).       *)
(***************************************************************************)
\* The three arrangements as the specification states them.
HeightsOK(oa, ob) == oa[3] <= height_limit /\ ob[3] <= height_limit

LengthArrangement(oa, ob) ==
    /\ HeightsOK(oa, ob)
    /\ oa[1] + ob[1] <= max_length
    /\ (IF oa[2] >= ob[2] THEN oa[2] ELSE ob[2]) <= max_width

WidthArrangement(oa, ob) ==
    /\ HeightsOK(oa, ob)
    /\ (IF oa[1] >= ob[1] THEN oa[1] ELSE ob[1]) <= max_length
    /\ oa[2] + ob[2] <= max_width

StackArrangement(oa, ob) ==
    /\ HeightsOK(oa, ob)
    /\ oa[1] <= max_length /\ ob[1] <= max_length
    /\ oa[2] <= max_width /\ ob[2] <= max_width
    /\ oa[3] + ob[3] <= height_limit

AnyArrangement(oa, ob) ==
    LengthArrangement(oa, ob) \/ WidthArrangement(oa, ob) \/ StackArrangement(oa, ob)

HoldsFor(tag, oa, ob) ==
    CASE tag = "length" -> LengthArrangement(oa, ob)
      [] tag = "width"  -> WidthArrangement(oa, ob)
      [] tag = "stack"  -> StackArrangement(oa, ob)
      [] OTHER -> FALSE

\* C7: the evaluator returns (True, detail) exactly when some orientation
\* of A and some orientation of B, both within the height limit, satisfy
\* the length, the width or the stack arrangement; otherwise (False, None);
\* and the reported pair satisfies the reported arrangement.
C7_FeasibleIffSomeArrangement ==
    pc = "done" =>
        /\ ret.ok <=> \E oa \in PermutationSet(dims_a), ob \in PermutationSet(dims_b) :
                          AnyArrangement(oa, ob)
        /\ ~ ret.ok => ret.detail = None
        /\ ret.ok =>
              /\ ret.detail.orientation_a \in PermutationSet(dims_a)
              /\ ret.detail.orientation_b \in PermutationSet(dims_b)
              /\ HoldsFor(ret.detail.arrangement, ret.detail.orientation_a,
                          ret.detail.orientation_b)

\* C7 witness: a feasible pair of which some orientation has a height above
\* the limit, and for which the stack arrangement is the one reported.
C7_Witness ==
    /\ pc = "done" /\ ret.ok
    /\ ret.detail.arrangement = "stack"
    /\ \E oa \in PermutationSet(dims_a) : oa[3] > height_limit

\* C7, the infeasible side: (False, None) although every orientation pair
\* is within the height limit.
C7_InfeasibleCase ==
    /\ pc = "done" /\ ~ ret.ok
    /\ \A oa \in PermutationSet(dims_a), ob \in PermutationSet(dims_b) :
          HeightsOK(oa, ob)

\* (oa1, ob1) comes before (oa2, ob2): A's orientations ascending, and for
\* each of them B's orientations ascending.
PairBefore(oa1, ob1, oa2, ob2) ==
    TupleLess(oa1, oa2) \/ (oa1 = oa2 /\ TupleLess(ob1, ob2))

FirstTagOf(oa, ob) ==
    IF LengthArrangement(oa, ob) THEN "length"
    ELSE IF WidthArrangement(oa, ob) THEN "width"
    ELSE IF StackArrangement(oa, ob) THEN "stack"
    ELSE "none"

\* C8: on success the reported pair is the first one, in the order `A's
\* orientations ascending, for each of them B's orientations ascending`,
\* for which an arrangement holds, and the tag is the first of length,
\* width, stack that holds for it; A = B = (100,100,100) on 300x300,
\* overhang 0, limit 200 gives the length arrangement.
C8_FirstFeasiblePair ==
    pc = "done" =>
        /\ ret.ok =>
              /\ \A oa \in PermutationSet(dims_a), ob \in PermutationSet(dims_b) :
                    PairBefore(oa, ob, ret.detail.orientation_a,
                               ret.detail.orientation_b)
                        => ~ AnyArrangement(oa, ob)
              /\ ret.detail.arrangement =
                    FirstTagOf(ret.detail.orientation_a, ret.detail.orientation_b)
        /\ (dims_a = <<100, 100, 100>> /\ dims_b = <<100, 100, 100>>
              /\ pallet_length = 300 /\ pallet_width = 300 /\ overhang = 0
              /\ height_limit = 200)
             => (ret.ok /\ ret.detail.arrangement = "length")

\* C8 witness: the reported pair is not the first pair of the enumeration,
\* an orientation pair that comes later is feasible as well, and the pair
\* reported satisfies a second arrangement besides the one reported.
C8_Witness ==
    /\ pc = "done" /\ ret.ok
    /\ \E oa \in PermutationSet(dims_a), ob \in PermutationSet(dims_b) :
          /\ PairBefore(oa, ob, ret.detail.orientation_a, ret.detail.orientation_b)
          /\ HeightsOK(oa, ob)
    /\ \E oa \in PermutationSet(dims_a), ob \in PermutationSet(dims_b) :
          /\ PairBefore(ret.detail.orientation_a, ret.detail.orientation_b, oa, ob)
          /\ AnyArrangement(oa, ob)
    /\ ret.detail.arrangement = "width"
    /\ StackArrangement(ret.detail.orientation_a, ret.detail.orientation_b)

SwappedResult ==
    evaluate_combination_pair(dims_b, dims_a, pallet_length, pallet_width,
                              overhang, height_limit)

\* C9: exchanging the two boxes does not change feasibility: the call with
\* (dims_b, dims_a) returns ok = True exactly when the call with
\* (dims_a, dims_b) does.
C9_SwapKeepsFeasibility ==
    pc = "done" => (ret.ok <=> SwappedResult.ok)

\* C9 witness: a feasible pair of different boxes for which the exchanged
\* call reports another arrangement or another orientation pair.
C9_Witness ==
    /\ pc = "done" /\ ret.ok
    /\ PermutationSet(dims_a) # PermutationSet(dims_b)
    /\ \/ SwappedResult.detail.arrangement # ret.detail.arrangement
       \/ SwappedResult.detail.orientation_a # ret.detail.orientation_b
       \/ SwappedResult.detail.orientation_b # ret.detail.orientation_a

\* The triple is given in ascending order.
Ascending(d) == d[1] <= d[2] /\ d[2] <= d[3]

\* C25: the triples are unordered as input.  For every rearrangement of
\* dims_a and every rearrangement of dims_b evaluate_combination_pair
\* returns the same ok, orientation pair and arrangement, and for every
\* rearrangement of a triple find_best_orientation returns the same
\* summary.  (Stated from the ascending representative of each triple:
\* every triple is a rearrangement of one.)
C25_InputOrderIrrelevant ==
    (pc = "done" /\ Ascending(dims_a) /\ Ascending(dims_b)) =>
        /\ \A a \in PermutationSet(dims_a) : \A b \in PermutationSet(dims_b) :
              evaluate_combination_pair(a, b, pallet_length, pallet_width,
                                        overhang, height_limit) = ret
        /\ \A a \in PermutationSet(dims_a) :
              find_best_orientation(a, pallet_length, pallet_width,
                                    height_limit, overhang)
                  = find_best_orientation(dims_a, pallet_length, pallet_width,
                                          height_limit, overhang)

\* C25 witness: a feasible pair of boxes of three different sides each,
\* where the orientations chosen are not the first of the enumeration and
\* a single box of the first kind has a best orientation.
C25_Witness ==
    /\ pc = "done"
    /\ ret.ok
    /\ Ascending(dims_a) /\ Ascending(dims_b)
    /\ Cardinality(PermutationSet(dims_a)) = 6
    /\ Cardinality(PermutationSet(dims_b)) = 6
    /\ ret.detail.orientation_a # dims_a
    /\ ret.detail.orientation_b # dims_b
    /\ find_best_orientation(dims_a, pallet_length, pallet_width,
                             height_limit, overhang) # None

\* C24: for a feasible pair of boxes of positive dimensions the layout
\* drawn has box A at the origin and box B at (A's length, 0) in the length
\* arrangement, at (0, A's width) in the width arrangement and at the
\* origin in the stack arrangement, each with the length and width of its
\* orientation; both rectangles lie in the footprint of the pallet plus
\* overhang, and in the length and width arrangements they do not overlap.
C24_CombinationRectangles ==
    pc = "drawn" =>
        LET oa == ret.detail.orientation_a
            ob == ret.detail.orientation_b
            tag == ret.detail.arrangement
        IN  /\ Len(rectangles) = 2
            /\ rectangles[1] = <<0, 0, oa[1], oa[2], "A">>
            /\ tag = "length" => rectangles[2] = <<oa[1], 0, ob[1], ob[2], "B">>
            /\ tag = "width" => rectangles[2] = <<0, oa[2], ob[1], ob[2], "B">>
            /\ tag = "stack" => rectangles[2] = <<0, 0, ob[1], ob[2], "B">>
            /\ tag \in {"length", "width", "stack"}
            /\ InFootprint(rectangles[1])
            /\ InFootprint(rectangles[2])
            /\ tag \in {"length", "width"} => Disjoint(rectangles[1], rectangles[2])

\* C24 witness: a width arrangement was drawn, B behind A, with boxes that
\* would not fit one after the other along the length.
C24_Witness ==
    /\ pc = "drawn"
    /\ ret.detail.arrangement = "width"
    /\ rectangles[2][2] = ret.detail.orientation_a[2]
    /\ ret.detail.orientation_a[1] + ret.detail.orientation_b[1]
          > pallet_length + overhang

\* The other two arrangements drawn.
C24_LengthCase ==
    /\ pc = "drawn"
    /\ ret.detail.arrangement = "length"
    /\ rectangles[2][1] = ret.detail.orientation_a[1]

C24_StackCase ==
    /\ pc = "drawn"
    /\ ret.detail.arrangement = "stack"
    /\ rectangles[2][1] = 0 /\ rectangles[2][2] = 0

(***************************************************************************)
(* evaluate_combination_for_group.                                         *)
(***************************************************************************)
\* A Python str.
Str(text) == [kind |-> "str", value |-> text]

\* The note of a group of more than two boxes (the literal of the source,
\* in Latin letters).
MANUAL_NOTE == Str("Bolee dvuh artikulov v gruppe")

\* An empty dict.
EmptyDict == [k \in {} |-> None]

\* d[key] = value on a dict d.
DictSet(d, key, value) ==
    [k \in DOMAIN d \cup {key} |-> IF k = key THEN value ELSE d[k]]

\* One entry of the result.
GroupEntry(ok, detail, note) == [ok |-> ok, detail |-> detail, note |-> note]

\* The entry of one limit for a group of more than two boxes.
ManualEntry == GroupEntry(FALSE, None, MANUAL_NOTE)

\* PairEntry attaching the note to an infeasible pair.
PairEntryNoteWhenInfeasible(d_a, d_b, p_length, p_width, ovh, limit) ==
    LET r == evaluate_combination_pair(d_a, d_b, p_length, p_width, ovh, limit)
    IN  GroupEntry(r.ok, r.detail, IF r.ok THEN None ELSE MANUAL_NOTE)

\* The entry of one limit for a group of two boxes.
PairEntry(d_a, d_b, p_length, p_width, ovh, limit) ==
    LET r == evaluate_combination_pair(d_a, d_b, p_length, p_width, ovh, limit)
    IN  GroupEntry(r.ok, r.detail, None)

\* for limit in height_limits: results[limit] = ...  (more than two boxes)
RECURSIVE ManualLoop(_, _, _)
ManualLoop(limits, i, d) ==
    IF i > Len(limits) THEN d
    ELSE ManualLoop(limits, i + 1, DictSet(d, limits[i], ManualEntry))

\* PairLoop evaluating the pair for the limits in mirrored order: the key
\* of position i gets the result of position Len - i + 1.
RECURSIVE PairLoopMirroredLimits(_, _, _, _, _, _, _, _)
PairLoopMirroredLimits(d_a, d_b, p_length, p_width, ovh, limits, i, d) ==
    IF i > Len(limits) THEN d
    ELSE PairLoopMirroredLimits(d_a, d_b, p_length, p_width, ovh, limits, i + 1,
                  DictSet(d, limits[i],
                          PairEntry(d_a, d_b, p_length, p_width, ovh,
                                    limits[Len(limits) + 1 - i])))

\* for limit in height_limits: results[limit] = ...  (two boxes)
RECURSIVE PairLoop(_, _, _, _, _, _, _, _)
PairLoop(d_a, d_b, p_length, p_width, ovh, limits, i, d) ==
    IF i > Len(limits) THEN d
    ELSE PairLoop(d_a, d_b, p_length, p_width, ovh, limits, i + 1,
                  DictSet(d, limits[i],
                          PairEntry(d_a, d_b, p_length, p_width, ovh, limits[i])))

evaluate_combination_for_group(d_list, p_length, p_width, ovh, limits) ==
    IF Len(d_list) < 2 THEN EmptyDict
    ELSE IF Len(d_list) > 2 THEN ManualLoop(limits, 1, EmptyDict)
    ELSE PairLoop(d_list[1], d_list[2], p_length, p_width, ovh, limits, 1, EmptyDict)

(***************************************************************************)
(* Specification of evaluate_combination_for_group, one action per         *)
(* iteration of its loops.                                                 *)
(***************************************************************************)
\* The boxes of the groups: one that fits everywhere, one that fits in some
\* orientations, one that is larger than every pallet.
GroupTriples ==
    { <<1, 1, 1>>, <<1, 2, MaxPairDim>>,
      <<MaxPalletLength + MaxOverhang + 1, MaxPalletLength + MaxOverhang + 1,
        MaxPalletLength + MaxOverhang + 1>> }

SeqsUpTo(S, n) == UNION { [1..k -> S] : k \in 0..n }

GroupInit ==
    /\ dims_list \in SeqsUpTo(GroupTriples, MaxGroup)
    /\ height_limits \in SeqsUpTo(1..MaxLimit, MaxLimits)
    /\ \E p \in PairPallets :
          /\ pallet_length = p.length
          /\ pallet_width = p.width
          /\ overhang = p.overhang
    /\ pc = "entry"
    /\ results = NoValue
    /\ lim_idx = 0
    /\ pair_calls = 0
    /\ ret = NoValue
    /\ ConvertIdle
    /\ DrawIdle
    /\ AppIdle
    /\ MetricsIdle
    /\ height_limit = 0
    /\ BestIdle
    /\ PairIdle
    /\ FrameIdle

\* GroupEnter sending every group of two or more boxes to the pair loop.
GroupEnterNoManualBranch ==
    /\ pc = "entry"
    /\ results' = EmptyDict
    /\ lim_idx' = 1
    /\ pc' = IF Len(dims_list) < 2 THEN "return" ELSE "pairs"
    /\ UNCHANGED <<app_result, convertVars, rectangles, metricsVars, palletVars, height_limit, ret, bestVars, pairVars,
                   dims_list, height_limits, pair_calls, frameVars>>

\* results = {}; the tests of len(dims_list).
GroupEnter ==
    /\ pc = "entry"
    /\ results' = EmptyDict
    /\ lim_idx' = 1
    /\ pc' = IF Len(dims_list) < 2 THEN "return"
             ELSE IF Len(dims_list) > 2 THEN "manual"
             ELSE "pairs"
    /\ UNCHANGED <<app_result, convertVars, rectangles, metricsVars, palletVars, height_limit, ret, bestVars, pairVars,
                   dims_list, height_limits, pair_calls, frameVars>>

\* One iteration of the loop of a group of more than two boxes.
GroupManual ==
    /\ pc = "manual"
    /\ lim_idx <= Len(height_limits)
    /\ results' = DictSet(results, height_limits[lim_idx], ManualEntry)
    /\ lim_idx' = lim_idx + 1
    /\ UNCHANGED <<app_result, convertVars, rectangles, metricsVars, pc, palletVars, height_limit, ret, bestVars, pairVars,
                   dims_list, height_limits, pair_calls, frameVars>>

\* One iteration of the loop of a group of two boxes: one call of
\* evaluate_combination_pair.
GroupPair ==
    /\ pc = "pairs"
    /\ lim_idx <= Len(height_limits)
    /\ results' = DictSet(results, height_limits[lim_idx],
                          PairEntry(dims_list[1], dims_list[2], pallet_length,
                                    pallet_width, overhang, height_limits[lim_idx]))
    /\ pair_calls' = pair_calls + 1
    /\ lim_idx' = lim_idx + 1
    /\ UNCHANGED <<app_result, convertVars, rectangles, metricsVars, pc, palletVars, height_limit, ret, bestVars, pairVars,
                   dims_list, height_limits, frameVars>>

\* The end of either loop.
GroupLoopEnd ==
    /\ pc \in {"manual", "pairs"}
    /\ lim_idx > Len(height_limits)
    /\ pc' = "return"
    /\ UNCHANGED <<app_result, convertVars, rectangles, metricsVars, palletVars, height_limit, ret, bestVars, pairVars, groupVars,
                   frameVars>>

\* return results
GroupReturn ==
    /\ pc = "return"
    /\ ret' = results
    /\ pc' = "done"
    /\ UNCHANGED <<app_result, convertVars, rectangles, metricsVars, palletVars, height_limit, bestVars, pairVars, groupVars, frameVars>>

GroupNext ==
    GroupEnter \/ GroupManual \/ GroupPair \/ GroupLoopEnd \/ GroupReturn

SpecGroup == GroupInit /\ [][GroupNext]_vars

(***************************************************************************)
(* Properties of evaluate_combination_for_group (checked under SpecGroup). *)
(***************************************************************************)
LimitSet == { height_limits[i] : i \in 1..Len(height_limits) }

\* The loops run step by step return what the operator computes.
GroupMatchesOperator ==
    pc = "done" =>
        ret = evaluate_combination_for_group(dims_list, pallet_length,
                                             pallet_width, overhang, height_limits)

\* C10: for a group of three or more triples, whatever their values and
\* whatever the list of limits, no pair search is made, and the result
\* holds for every height limit an entry with ok = False, detail = None
\* and a non-empty note.
C10_LargeGroupManualCheck ==
    Len(dims_list) >= 3 =>
        /\ pair_calls = 0
        /\ pc = "done" =>
              /\ DOMAIN ret = LimitSet
              /\ \A limit \in LimitSet :
                    /\ ret[limit].ok = FALSE
                    /\ ret[limit].detail = None
                    /\ ret[limit].note # None
                    /\ ret[limit].note.kind = "str"
                    /\ ret[limit].note.value # ""

\* C10 witness: a group of three boxes and two different limits has
\* returned, and its first two boxes alone would have been feasible.
C10_Witness ==
    /\ pc = "done"
    /\ Len(dims_list) >= 3
    /\ Cardinality(LimitSet) >= 2
    /\ \E limit \in LimitSet :
          evaluate_combination_pair(dims_list[1], dims_list[2], pallet_length,
                                    pallet_width, overhang, limit).ok

\* C11: for a group of exactly two triples the result has exactly one
\* entry per configured height limit; its ok and detail are those of
\* evaluate_combination_pair run for that limit alone, and its note is None
\* whether the pair is feasible or not.
C11_PairGroupDelegatesPerLimit ==
    (pc = "done" /\ Len(dims_list) = 2) =>
        /\ DOMAIN ret = LimitSet
        /\ \A limit \in LimitSet :
              LET r == evaluate_combination_pair(dims_list[1], dims_list[2],
                                                 pallet_length, pallet_width,
                                                 overhang, limit)
              IN  /\ ret[limit].ok = r.ok
                  /\ ret[limit].detail = r.detail
                  /\ ret[limit].note = None

\* C11 witness: a group of two boxes has returned, feasible at one limit
\* and infeasible at another, the infeasible entry without a note.
C11_Witness ==
    /\ pc = "done"
    /\ Len(dims_list) = 2
    /\ pair_calls = 2
    /\ \E l1, l2 \in LimitSet :
          /\ ret[l1].ok /\ ret[l1].detail # None /\ ret[l1].note = None
          /\ ~ ret[l2].ok /\ ret[l2].detail = None /\ ret[l2].note = None

(***************************************************************************)
(* Cell values and parse_dimension_value.                                  *)
(*                                                                         *)
(* A cell is a tagged value: the tag t, the number n of a numeric cell and *)
(* the text s of a text cell.  A text is a sequence of one-character       *)
(* strings.  A float is the exact decimal num / den, den a power of ten,   *)
(* in lowest terms; NaN is apart.                                          *)
(***************************************************************************)
Cell(t, n, s) == [t |-> t, n |-> n, s |-> s]
CellNone == Cell("None", 0, <<>>)
\* True and False are the integers 1 and 0 of type bool.
CellBool(b) == Cell("bool", IF b THEN 1 ELSE 0, <<>>)
CellInt(n) == Cell("int", n, <<>>)
\* A float cell, given in hundredths.
CellFloat(hundredths) == Cell("float", hundredths, <<>>)
\* float('nan'): the value pandas gives an empty cell.
CellNaN == Cell("nan", 0, <<>>)
CellStr(chars) == Cell("str", 0, chars)
\* Any other object (a date, a list, ...).
CellOther == Cell("other", 0, <<>>)

NaN == [kind |-> "nan"]

\* ValueError (int() of a NaN).
RaisedValueError == [kind |-> "ValueError"]

RECURSIVE Float(_, _)
Float(num, den) ==
    IF den > 1 /\ num % 10 = 0 THEN Float(num \div 10, den \div 10)
    ELSE [kind |-> "float", num |-> num, den |-> den]

DigitChars == <<"0", "1", "2", "3", "4", "5", "6", "7", "8", "9">>
IsDigit(c) == \E i \in 1..10 : DigitChars[i] = c
DigitValue(c) == (CHOOSE i \in 1..10 : DigitChars[i] = c) - 1

\* str.strip() (the blank is the only whitespace of the alphabet).
RECURSIVE LStrip(_)
LStrip(chars) ==
    IF chars # <<>> /\ Head(chars) = " " THEN LStrip(Tail(chars)) ELSE chars

RECURSIVE RStrip(_)
RStrip(chars) ==
    IF chars # <<>> /\ chars[Len(chars)] = " "
    THEN RStrip(SubSeq(chars, 1, Len(chars) - 1)) ELSE chars

Strip(chars) == RStrip(LStrip(chars))

\* cleaned.replace(",", ".")
ReplaceCommas(chars) ==
    [i \in 1..Len(chars) |-> IF chars[i] = "," THEN "." ELSE chars[i]]

KeepNumberChar(c) == IsDigit(c) \/ c \in {"+", "-", "."}

\* re.sub(r"[^0-9+\-.]", "", cleaned)
RemoveOtherChars(chars) == SelectSeq(chars, KeepNumberChar)

RECURSIVE DigitsValue(_)
DigitsValue(chars) ==
    IF chars = <<>> THEN 0
    ELSE 10 * DigitsValue(SubSeq(chars, 1, Len(chars) - 1))
            + DigitValue(chars[Len(chars)])

RECURSIVE Pow10(_)
Pow10(n) == IF n = 0 THEN 1 ELSE 10 * Pow10(n - 1)

\* float(cleaned) for a text of digits, signs and points: None stands for
\* the ValueError that the function catches.
ParseFloat(chars) ==
    LET signed == chars # <<>> /\ chars[1] \in {"+", "-"}
        body == IF signed THEN Tail(chars) ELSE chars
        points == { i \in 1..Len(body) : body[i] = "." }
        wellFormed ==
            /\ \A i \in 1..Len(body) : IsDigit(body[i]) \/ body[i] = "."
            /\ Cardinality(points) <= 1
            /\ \E i \in 1..Len(body) : IsDigit(body[i])
    IN  IF ~ wellFormed THEN None
        ELSE LET digits == SelectSeq(body, IsDigit)
                 decimals == IF points = {} THEN 0
                             ELSE Len(body) - (CHOOSE i \in points : TRUE)
                 magnitude == DigitsValue(digits)
             IN  Float(IF signed /\ chars[1] = "-" THEN 0 - magnitude ELSE magnitude,
                       Pow10(decimals))

\* parse_dimension_value taking a boolean for the number 1 or 0.
parse_dimension_valueBoolAsNumber(value) ==
    CASE value.t = "None" -> None
      [] value.t = "bool" -> Float(value.n, 1)
      [] value.t = "int" -> Float(value.n, 1)
      [] value.t = "float" -> Float(value.n, 100)
      [] value.t = "nan" -> NaN
      [] value.t = "str" ->
            LET stripped == Strip(value.s)
                cleaned == RemoveOtherChars(ReplaceCommas(stripped))
            IN  IF stripped = <<>> THEN None
                ELSE IF cleaned \in {<<>>, <<"+">>, <<"-">>, <<".">>} THEN None
                ELSE ParseFloat(cleaned)
      [] OTHER -> None

parse_dimension_value(value) ==
    CASE value.t = "None" -> None
      [] value.t = "bool" -> None
      [] value.t = "int" -> Float(value.n, 1)
      [] value.t = "float" -> Float(value.n, 100)
      [] value.t = "nan" -> NaN
      [] value.t = "str" ->
            LET stripped == Strip(value.s)
                cleaned == RemoveOtherChars(ReplaceCommas(stripped))
            IN  IF stripped = <<>> THEN None
                ELSE IF cleaned \in {<<>>, <<"+">>, <<"-">>, <<".">>} THEN None
                ELSE ParseFloat(cleaned)
      [] OTHER -> None

\* round(a / b) for integers a, b > 0: to the nearest, ties to even.
RoundHalfEven(a, b) ==
    LET q == a \div b
        r == a % b
    IN  IF 2 * r > b THEN q + 1
        ELSE IF 2 * r < b THEN q
        ELSE IF q % 2 = 0 THEN q ELSE q + 1

\* cm_to_mm cutting the fraction off: int(value_cm * 10).
cm_to_mmTruncating(value_cm) ==
    LET q == ((IF value_cm.num < 0 THEN 0 - value_cm.num ELSE value_cm.num) * 10)
                \div value_cm.den
    IN  IF value_cm.num < 0 THEN 0 - q ELSE q

\* int(round(value_cm * 10)) for a finite float.
cm_to_mm(value_cm) == RoundHalfEven(value_cm.num * 10, value_cm.den)

\* The row's three cells in millimetres, None, or the ValueError of
\* cm_to_mm on a NaN.
convert_row_to_mm(row) ==
    LET dims_cm == <<parse_dimension_value(row.length),
                     parse_dimension_value(row.width),
                     parse_dimension_value(row.height)>>
    IN  IF \E i \in 1..3 : dims_cm[i] = None THEN None
        ELSE IF \E i \in 1..3 : dims_cm[i] = NaN THEN RaisedValueError
        ELSE [kind |-> "list",
              dims |-> <<cm_to_mm(dims_cm[1]), cm_to_mm(dims_cm[2]),
                         cm_to_mm(dims_cm[3])>>]

(***************************************************************************)
(* compute_box_metrics.                                                    *)
(***************************************************************************)
\* tuple(sorted(dims_mm, reverse=True))
SortedDescending(dims) ==
    LET hi == Max2(dims[1], Max2(dims[2], dims[3]))
        lo == 0 - Max2(0 - dims[1], Max2(0 - dims[2], 0 - dims[3]))
    IN  <<hi, dims[1] + dims[2] + dims[3] - hi - lo, lo>>

\* for limit in height_limits: best_by_height[limit] = find_best_orientation(...)
RECURSIVE BestByHeightLoop(_, _, _, _, _, _, _)
BestByHeightLoop(dims, p_length, p_width, ovh, limits, i, d) ==
    IF i > Len(limits) THEN d
    ELSE BestByHeightLoop(dims, p_length, p_width, ovh, limits, i + 1,
                          DictSet(d, limits[i],
                                  find_best_orientation(dims, p_length, p_width,
                                                        limits[i], ovh)))

\* BoxMetrics(dims_mm=..., sorted_dims_mm=..., best_by_height=...)
BoxMetrics(dims, sorted, by_height) ==
    [kind |-> "BoxMetrics", dims_mm |-> dims, sorted_dims_mm |-> sorted,
     best_by_height |-> by_height, error |-> None]

\* The BoxMetrics, or the exception of a call of find_best_orientation.
compute_box_metrics(dims, p_length, p_width, ovh, limits) ==
    IF \E i \in 1..Len(limits) :
          find_best_orientation(dims, p_length, p_width, limits[i], ovh) = Raised
    THEN Raised
    ELSE BoxMetrics(dims, SortedDescending(dims),
                    BestByHeightLoop(dims, p_length, p_width, ovh, limits, 1,
                                     EmptyDict))

(***************************************************************************)
(* Specification of compute_box_metrics, one action per iteration of its   *)
(* loop.                                                                   *)
(***************************************************************************)
\* The boxes of the runs with the default pallet: the documented ones and
\* one that stands under 1800 mm only.
MetricsScenarioTriples == ScenarioTriples \cup { <<1750, 400, 300>> }

MetricsInit ==
    /\ \/ /\ dims_mm \in Triples(-1, MaxDim)
          /\ height_limits \in SeqsUpTo(1..MaxLimit, MaxLimits)
          /\ \E p \in PairPallets :
                /\ pallet_length = p.length
                /\ pallet_width = p.width
                /\ overhang = p.overhang
       \/ /\ dims_mm \in MetricsScenarioTriples
          /\ height_limits \in { DEFAULT_PALLET_HEIGHT_LIMITS, <<1700, 1800>> }
          /\ pallet_length = DefaultPallet.length
          /\ pallet_width = DefaultPallet.width
          /\ overhang = DefaultPallet.overhang
    /\ pc = "enter"
    /\ sorted_dims = NoValue
    /\ best_by_height = NoValue
    /\ lim_idx = 0
    /\ ret = NoValue
    /\ ConvertIdle
    /\ DrawIdle
    /\ AppIdle
    /\ height_limit = 0
    /\ idx = 0 /\ best = NoValue /\ outcome = NoValue
    /\ dims_list = NoValue /\ results = NoValue /\ pair_calls = 0
    /\ PairIdle
    /\ FrameIdle

\* sorted_dims = tuple(sorted(dims_mm, reverse=True)); best_by_height = {}
MetricsEnter ==
    /\ pc = "enter"
    /\ sorted_dims' = SortedDescending(dims_mm)
    /\ best_by_height' = EmptyDict
    /\ lim_idx' = 1
    /\ pc' = "limits"
    /\ UNCHANGED <<app_result, convertVars, rectangles, palletVars, height_limit, ret, bestVars, pairVars, dims_list,
                   height_limits, results, pair_calls, frameVars>>

\* MetricsLimit storing under each limit the result of the first limit.
MetricsLimitFirstLimit ==
    /\ pc = "limits"
    /\ lim_idx <= Len(height_limits)
    /\ LET b == find_best_orientation(dims_mm, pallet_length, pallet_width,
                                      height_limits[1], overhang)
       IN  IF b = Raised
           THEN /\ pc' = "raised"
                /\ ret' = Raised
                /\ UNCHANGED <<best_by_height, lim_idx>>
           ELSE /\ best_by_height' = DictSet(best_by_height, height_limits[lim_idx], b)
                /\ lim_idx' = lim_idx + 1
                /\ UNCHANGED <<pc, ret>>
    /\ UNCHANGED <<app_result, convertVars, rectangles, palletVars, height_limit, bestVars, pairVars, dims_list,
                   height_limits, results, pair_calls, frameVars, sorted_dims>>

\* One iteration of `for limit in height_limits`.
MetricsLimit ==
    /\ pc = "limits"
    /\ lim_idx <= Len(height_limits)
    /\ LET b == find_best_orientation(dims_mm, pallet_length, pallet_width,
                                      height_limits[lim_idx], overhang)
       IN  IF b = Raised
           THEN /\ pc' = "raised"
                /\ ret' = Raised
                /\ UNCHANGED <<best_by_height, lim_idx>>
           ELSE /\ best_by_height' = DictSet(best_by_height, height_limits[lim_idx], b)
                /\ lim_idx' = lim_idx + 1
                /\ UNCHANGED <<pc, ret>>
    /\ UNCHANGED <<app_result, convertVars, rectangles, palletVars, height_limit, bestVars, pairVars, dims_list,
                   height_limits, results, pair_calls, frameVars, sorted_dims>>

\* return BoxMetrics(...)
MetricsReturn ==
    /\ pc = "limits"
    /\ lim_idx > Len(height_limits)
    /\ ret' = BoxMetrics(dims_mm, sorted_dims, best_by_height)
    /\ pc' = "done"
    /\ UNCHANGED <<app_result, convertVars, rectangles, palletVars, height_limit, bestVars, pairVars, groupVars,
                   frameVars, metricsVars>>

MetricsNext == MetricsEnter \/ MetricsLimit \/ MetricsReturn

SpecMetrics == MetricsInit /\ [][MetricsNext]_vars

(***************************************************************************)
(* Properties of compute_box_metrics (checked under SpecMetrics).          *)
(***************************************************************************)
\* The loop run step by step returns what the operator computes.
MetricsMatchesOperator ==
    pc \in {"done", "raised"} =>
        ret = compute_box_metrics(dims_mm, pallet_length, pallet_width, overhang,
                                  height_limits)

\* C17: the BoxMetrics returned has in best_by_height exactly one key per
\* distinct requested limit, each value being what find_best_orientation
\* returns for that limit alone; dims_mm is the input triple and
\* sorted_dims_mm the input values in descending order.
C17_MetricsPerLimit ==
    pc = "done" =>
        /\ ret.kind = "BoxMetrics"
        /\ DOMAIN ret.best_by_height = LimitSet
        /\ \A limit \in LimitSet :
              ret.best_by_height[limit]
                  = find_best_orientation(dims_mm, pallet_length, pallet_width,
                                          limit, overhang)
        /\ ret.dims_mm = dims_mm
        /\ IsRearrangement(ret.sorted_dims_mm, dims_mm)
        /\ ret.sorted_dims_mm[1] >= ret.sorted_dims_mm[2]
        /\ ret.sorted_dims_mm[2] >= ret.sorted_dims_mm[3]

\* C17 witness: metrics were returned for a triple given in another than
\* descending order and two limits, the smaller limit first, with a fit
\* under the larger limit only.
C17_Witness ==
    /\ pc = "done"
    /\ Len(height_limits) = 2
    /\ height_limits[1] < height_limits[2]
    /\ ret.best_by_height[height_limits[1]] = None
    /\ ret.best_by_height[height_limits[2]] # None
    /\ ret.sorted_dims_mm # ret.dims_mm

\* A limit requested twice gives one key.
C17_RepeatedLimitCase ==
    /\ pc = "done"
    /\ Len(height_limits) = 2
    /\ Cardinality(DOMAIN ret.best_by_height) = 1

\* The triple has positive sides only.
PositiveDims(d) == d[1] > 0 /\ d[2] > 0 /\ d[3] > 0

\* What find_best_orientation returns for the box of the run under a limit.
BestUnder(limit) ==
    find_best_orientation(dims_mm, pallet_length, pallet_width, limit, overhang)

\* The maximum reported for a limit: the total of its summary, 0 without one.
ReportedMaximum(limit) ==
    IF ret.best_by_height[limit] = None THEN 0
    ELSE ret.best_by_height[limit].total

\* The limits of the run and the small limits around them.
ComparedLimits == LimitSet \cup ((-1)..MaxLimit)

\* C27: for positive dimensions and a fixed pallet and overhang, a summary
\* at limit H implies at every H' >= H a summary of at least the same
\* total; so do the entries of the metrics returned, and the maximum
\* reported for 1800 is never smaller than the one for 1700.
C27_MonotoneInHeightLimit ==
    (pc = "done" /\ PositiveDims(dims_mm)) =>
        /\ \A low \in ComparedLimits : \A high \in ComparedLimits :
              (low <= high /\ BestUnder(low) # None)
                  => /\ BestUnder(high) # None
                     /\ BestUnder(high).total >= BestUnder(low).total
        /\ \A low \in LimitSet : \A high \in LimitSet :
              (low <= high /\ ret.best_by_height[low] # None)
                  => /\ ret.best_by_height[high] # None
                     /\ ret.best_by_height[high].total
                            >= ret.best_by_height[low].total
        /\ LimitSet = {1800, 1700} => ReportedMaximum(1800) >= ReportedMaximum(1700)

\* C27 witness: metrics returned for the limits 1800 and 1700 with a
\* summary under each and a larger total under 1800.
C27_Witness ==
    /\ pc = "done" /\ PositiveDims(dims_mm)
    /\ height_limits = <<1800, 1700>>
    /\ ret.best_by_height[1700] # None
    /\ ReportedMaximum(1800) > ReportedMaximum(1700)

\* C27 also covers a box that stands under the larger limit only.
C27_OnlyLargerLimitCase ==
    /\ pc = "done" /\ PositiveDims(dims_mm)
    /\ LimitSet = {1800, 1700}
    /\ ReportedMaximum(1700) = 0
    /\ ReportedMaximum(1800) > 0

\* ... and small limits where the total stays the same.
C27_EqualTotalCase ==
    /\ pc = "done" /\ PositiveDims(dims_mm)
    /\ Len(height_limits) = 2 /\ height_limits[1] < height_limits[2]
    /\ ret.best_by_height[height_limits[1]] # None
    /\ ret.best_by_height[height_limits[2]].total
           = ret.best_by_height[height_limits[1]].total

(***************************************************************************)
(* process_dataframe.  The table has the default index 0, 1, ...; row i of *)
(* the model is index i - 1.  The strings of the source are written in     *)
(* Latin letters.                                                          *)
(***************************************************************************)
PARSE_ERROR_NOTE == "Ne udalos raspoznat razmery"
PLACEHOLDER == "-"
LABEL_NO == "Net"
LABEL_MANUAL == "Proverit vruchnuyu"

\* A nullable int of a result column.
IntBox(n) == [kind |-> "int", value |-> n]

\* f"{value / 10:.1f}"
mm_to_cm_string(value) ==
    LET magnitude == IF value < 0 THEN 0 - value ELSE value
    IN  (IF value < 0 THEN "-" ELSE "") \o ToString(magnitude \div 10)
            \o "." \o ToString(magnitude % 10)

\* format_orientation of optimizer_workflow.py.
format_orientation(summary) ==
    IF summary = None THEN PLACEHOLDER
    ELSE mm_to_cm_string(summary.orientation[1]) \o "x"
            \o mm_to_cm_string(summary.orientation[2]) \o "x"
            \o mm_to_cm_string(summary.orientation[3]) \o " sm; sloy: "
            \o ToString(summary.grid[1]) \o "x" \o ToString(summary.grid[2])
            \o ", sloyov: " \o ToString(summary.layers)
            \o ", vsego: " \o ToString(summary.total)

\* f"Da ({limit/10:.0f} sm)"
LabelYes(limit) == "Da (" \o ToString(RoundHalfEven(limit, 10)) \o " sm)"

HasMetrics(mmap, i) == i \in DOMAIN mmap

\* OutputRow leaving the note of every row empty.
OutputRowEmptyNote(df, mmap, errs, limits, i) ==
    IF ~ HasMetrics(mmap, i)
    THEN [raw |-> df[i],
          length_mm |-> None, width_mm |-> None, height_mm |-> None,
          max |-> [l \in {limits[k] : k \in 1..Len(limits)} |-> None],
          scheme |-> [l \in {limits[k] : k \in 1..Len(limits)} |-> PLACEHOLDER],
          note |-> ""]
    ELSE [raw |-> df[i],
          length_mm |-> IntBox(mmap[i].sorted_dims_mm[1]),
          width_mm |-> IntBox(mmap[i].sorted_dims_mm[2]),
          height_mm |-> IntBox(mmap[i].sorted_dims_mm[3]),
          max |-> [l \in {limits[k] : k \in 1..Len(limits)} |->
                      IF mmap[i].best_by_height[l] # None
                      THEN IntBox(mmap[i].best_by_height[l].total)
                      ELSE IntBox(0)],
          scheme |-> [l \in {limits[k] : k \in 1..Len(limits)} |->
                         format_orientation(mmap[i].best_by_height[l])],
          note |-> ""]

\* OutputRow leaving the maximum blank where no orientation fits.
OutputRowBlankWithoutFit(df, mmap, errs, limits, i) ==
    IF ~ HasMetrics(mmap, i)
    THEN [raw |-> df[i],
          length_mm |-> None, width_mm |-> None, height_mm |-> None,
          max |-> [l \in {limits[k] : k \in 1..Len(limits)} |-> None],
          scheme |-> [l \in {limits[k] : k \in 1..Len(limits)} |-> PLACEHOLDER],
          note |-> IF i \in DOMAIN errs THEN errs[i] ELSE ""]
    ELSE [raw |-> df[i],
          length_mm |-> IntBox(mmap[i].sorted_dims_mm[1]),
          width_mm |-> IntBox(mmap[i].sorted_dims_mm[2]),
          height_mm |-> IntBox(mmap[i].sorted_dims_mm[3]),
          max |-> [l \in {limits[k] : k \in 1..Len(limits)} |->
                      IF mmap[i].best_by_height[l] # None
                      THEN IntBox(mmap[i].best_by_height[l].total)
                      ELSE None],
          scheme |-> [l \in {limits[k] : k \in 1..Len(limits)} |->
                         format_orientation(mmap[i].best_by_height[l])],
          note |-> ""]

\* The computed columns of output row i (the second loop).
OutputRow(df, mmap, errs, limits, i) ==
    IF ~ HasMetrics(mmap, i)
    THEN [raw |-> df[i],
          length_mm |-> None, width_mm |-> None, height_mm |-> None,
          max |-> [l \in {limits[k] : k \in 1..Len(limits)} |-> None],
          scheme |-> [l \in {limits[k] : k \in 1..Len(limits)} |-> PLACEHOLDER],
          note |-> IF i \in DOMAIN errs THEN errs[i] ELSE ""]
    ELSE [raw |-> df[i],
          length_mm |-> IntBox(mmap[i].sorted_dims_mm[1]),
          width_mm |-> IntBox(mmap[i].sorted_dims_mm[2]),
          height_mm |-> IntBox(mmap[i].sorted_dims_mm[3]),
          max |-> [l \in {limits[k] : k \in 1..Len(limits)} |->
                      IF mmap[i].best_by_height[l] # None
                      THEN IntBox(mmap[i].best_by_height[l].total)
                      ELSE IntBox(0)],
          scheme |-> [l \in {limits[k] : k \in 1..Len(limits)} |->
                         format_orientation(mmap[i].best_by_height[l])],
          note |-> ""]

\* The rows of one pallet group, in table order.
GroupRowIndices(df, group_id) ==
    SelectSeq([i \in 1..Len(df) |-> i], LAMBDA i : df[i].pallet = group_id)

\* dims_list of one group: the triples of its rows that have metrics.
RECURSIVE GroupDimsList(_, _, _)
GroupDimsList(mmap, indices, k) ==
    IF k > Len(indices) THEN <<>>
    ELSE (IF HasMetrics(mmap, indices[k]) THEN <<mmap[indices[k]].dims_mm>> ELSE <<>>)
            \o GroupDimsList(mmap, indices, k + 1)

\* FirstFeasibleLimit taking the last feasible limit of the list.
RECURSIVE FirstFeasibleLimitLast(_, _, _)
FirstFeasibleLimitLast(combination_result, limits, k) ==
    IF k > Len(limits) THEN 0
    ELSE LET later == FirstFeasibleLimitLast(combination_result, limits, k + 1)
         IN  IF later # 0 THEN later
             ELSE IF limits[k] \in DOMAIN combination_result
                     /\ combination_result[limits[k]].ok
             THEN limits[k]
             ELSE 0

\* The first limit, in the configured order, whose entry has ok; 0 if none.
RECURSIVE FirstFeasibleLimit(_, _, _)
FirstFeasibleLimit(combination_result, limits, k) ==
    IF k > Len(limits) THEN 0
    ELSE IF limits[k] \in DOMAIN combination_result
            /\ combination_result[limits[k]].ok
    THEN limits[k]
    ELSE FirstFeasibleLimit(combination_result, limits, k + 1)

\* label and detail_height of one evaluated group.
GroupVerdict(combination_result, limits) ==
    LET first == FirstFeasibleLimit(combination_result, limits, 1)
    IN  IF combination_result = EmptyDict
        THEN [label |-> LABEL_NO, detail_height |-> None]
        ELSE IF first # 0
        THEN [label |-> LabelYes(first), detail_height |-> IntBox(first)]
        ELSE IF \E l \in DOMAIN combination_result :
                    /\ combination_result[l].note # None
                    /\ combination_result[l].note.value # ""
        THEN [label |-> LABEL_MANUAL, detail_height |-> None]
        ELSE [label |-> LABEL_NO, detail_height |-> None]

\* The groups that get an entry in combination_details: those with at
\* least one row that has metrics.
EvaluatedGroups(df, mmap) ==
    { g \in { df[i].pallet : i \in 1..Len(df) } :
        GroupDimsList(mmap, GroupRowIndices(df, g), 1) # <<>> }

GroupResult(df, mmap, p_length, p_width, ovh, limits, g) ==
    evaluate_combination_for_group(GroupDimsList(mmap, GroupRowIndices(df, g), 1),
                                   p_length, p_width, ovh, limits)

\* combination_details: per evaluated group the entries per limit and the
\* key "selected_height" (None when the key is not set).
CombinationDetails(df, mmap, p_length, p_width, ovh, limits) ==
    [g \in EvaluatedGroups(df, mmap) |->
        LET r == GroupResult(df, mmap, p_length, p_width, ovh, limits, g)
        IN  [by_limit |-> r,
             selected_height |-> GroupVerdict(r, limits).detail_height]]

\* CombinationColumn writing the label of a group to its rows with metrics
\* only.
CombinationColumnParseableOnly(df, mmap, p_length, p_width, ovh, limits, with_groups) ==
    [i \in 1..Len(df) |->
        IF with_groups /\ df[i].pallet \in EvaluatedGroups(df, mmap)
                       /\ HasMetrics(mmap, i)
        THEN GroupVerdict(GroupResult(df, mmap, p_length, p_width, ovh, limits,
                                      df[i].pallet), limits).label
        ELSE PLACEHOLDER]

\* The column of labels.
CombinationColumn(df, mmap, p_length, p_width, ovh, limits, with_groups) ==
    [i \in 1..Len(df) |->
        IF with_groups /\ df[i].pallet \in EvaluatedGroups(df, mmap)
        THEN GroupVerdict(GroupResult(df, mmap, p_length, p_width, ovh, limits,
                                      df[i].pallet), limits).label
        ELSE PLACEHOLDER]

(***************************************************************************)
(* Specification of process_dataframe: one action per row of the first     *)
(* loop, one for the rest of the function.                                 *)
(***************************************************************************)
TextWithUnit == <<"6", "2", ",", "5", " ", "c", "m">>

\* The dimension cells of the rows of the tables.
SampleDimensions ==
    { \* 625 x 400 x 300 mm
      <<CellStr(TextWithUnit), CellInt(40), CellFloat(3000)>>,
      \* 1750 x 400 x 300 mm: stands upright under 1800 only
      <<CellInt(175), CellStr(<<" ", "4", "0">>), CellInt(30)>>,
      \* 2000 x 2000 x 2000 mm: larger than the pallet
      <<CellInt(200), CellInt(200), CellInt(200)>>,
      \* not parseable
      <<CellBool(TRUE), CellStr(<<"n", "/", "a">>), CellNone>>,
      \* a cell that parses to 0
      <<CellStr(<<"0">>), CellInt(40), CellInt(30)>>,
      \* a cell that parses to a negative value
      <<CellStr(<<"-", "5">>), CellInt(40), CellInt(30)>>,
      \* an empty cell
      <<CellNaN, CellInt(40), CellInt(30)>> }

\* The values of the pallet id column.
PalletIds == {1, 2}

SampleRows ==
    { [length |-> d[1], width |-> d[2], height |-> d[3], pallet |-> g] :
        d \in SampleDimensions, g \in PalletIds }

FrameInit ==
    /\ df_raw \in SeqsUpTo(SampleRows, MaxRows)
    /\ \/ /\ height_limits \in {DEFAULT_PALLET_HEIGHT_LIMITS, <<1700, 1800>>}
          /\ pallet_id_column = TRUE
       \/ /\ height_limits = DEFAULT_PALLET_HEIGHT_LIMITS
          /\ pallet_id_column = FALSE
    /\ pallet_length = DEFAULT_PALLET_LENGTH
    /\ pallet_width = DEFAULT_PALLET_WIDTH
    /\ overhang = DEFAULT_OVERHANG
    /\ pc = "rows"
    /\ row_i = 1
    /\ metrics_map = EmptyDict
    /\ errors = EmptyDict
    /\ ret = NoValue
    /\ ConvertIdle
    /\ DrawIdle
    /\ AppIdle
    /\ MetricsIdle
    /\ height_limit = 0
    /\ dims_list = NoValue /\ results = NoValue /\ lim_idx = 0 /\ pair_calls = 0
    /\ BestIdle
    /\ PairIdle

\* One iteration of `for idx, row in df_raw.iterrows()`.
FrameRow ==
    /\ pc = "rows"
    /\ row_i <= Len(df_raw)
    /\ LET dims == convert_row_to_mm(df_raw[row_i])
           metrics == compute_box_metrics(dims.dims, pallet_length, pallet_width,
                                          overhang, height_limits)
       IN  IF dims = None
           THEN /\ errors' = DictSet(errors, row_i, PARSE_ERROR_NOTE)
                /\ row_i' = row_i + 1
                /\ UNCHANGED <<pc, ret, metrics_map>>
           ELSE IF dims = RaisedValueError
           THEN /\ pc' = "raised"
                /\ ret' = RaisedValueError
                /\ UNCHANGED <<errors, row_i, metrics_map>>
           ELSE IF metrics = Raised
           THEN /\ pc' = "raised"
                /\ ret' = Raised
                /\ UNCHANGED <<errors, row_i, metrics_map>>
           ELSE /\ metrics_map' = DictSet(metrics_map, row_i, metrics)
                /\ row_i' = row_i + 1
                /\ UNCHANGED <<pc, ret, errors>>
    /\ UNCHANGED <<app_result, convertVars, rectangles, metricsVars, palletVars, height_limit, bestVars, pairVars, groupVars,
                   df_raw, pallet_id_column>>

\* The second loop, the result columns, the groups, and the return.
FrameFinish ==
    /\ pc = "rows"
    /\ row_i > Len(df_raw)
    /\ ret' = [kind |-> "result",
               result_df |->
                   [i \in 1..Len(df_raw) |->
                       [row |-> OutputRow(df_raw, metrics_map, errors,
                                          height_limits, i),
                        combination |->
                            CombinationColumn(df_raw, metrics_map, pallet_length,
                                              pallet_width, overhang, height_limits,
                                              pallet_id_column)[i]]],
               metrics_map |-> metrics_map,
               combination_details |->
                   IF pallet_id_column
                   THEN CombinationDetails(df_raw, metrics_map, pallet_length,
                                           pallet_width, overhang, height_limits)
                   ELSE EmptyDict]
    /\ pc' = "done"
    /\ UNCHANGED <<app_result, convertVars, rectangles, metricsVars, palletVars, height_limit, bestVars, pairVars, groupVars, frameVars>>

FrameNext == FrameRow \/ FrameFinish

SpecFrame == FrameInit /\ [][FrameNext]_vars

(***************************************************************************)
(* Properties of process_dataframe (checked under SpecFrame).              *)
(***************************************************************************)
\* C5: for every input table process_dataframe ends without raising and
\* returns a table with exactly one output row per input row; a row whose
\* dimensions cannot be used does not prevent the others from being
\* computed.
C5_NoRowAbortsTheBatch ==
    /\ pc # "raised"
    /\ pc = "done" => Len(ret.result_df) = Len(df_raw)

\* The part of C5 that the code keeps: a call that returns gives one output
\* row per input row, and unparseable rows and rows of negative dimensions
\* leave the other rows computed.
FrameReturnsEveryRow ==
    pc = "done" =>
        /\ Len(ret.result_df) = Len(df_raw)
        /\ \A i \in 1..Len(df_raw) :
              (convert_row_to_mm(df_raw[i]) # None) <=> HasMetrics(ret.metrics_map, i)

\* A call returned for a table that holds an unparseable row, a row with a
\* negative dimension and a row with metrics.
FrameMixedTableReturns ==
    /\ pc = "done"
    /\ \E i \in 1..Len(df_raw) : ret.result_df[i].row.note = PARSE_ERROR_NOTE
    /\ \E i \in 1..Len(df_raw) :
          HasMetrics(ret.metrics_map, i) /\ ret.metrics_map[i].sorted_dims_mm[3] < 0
    /\ \E i \in 1..Len(df_raw) :
          HasMetrics(ret.metrics_map, i) /\ ret.result_df[i].row.max[1800] # IntBox(0)

\* The rows of group g whose three cells convert to millimetres.
ConvertibleRows(g) ==
    { i \in 1..Len(df_raw) :
        df_raw[i].pallet = g /\ convert_row_to_mm(df_raw[i]) # None }

\* The millimetre triples of the convertible rows of group g, in table
\* order.
RECURSIVE ConvertibleDims(_, _)
ConvertibleDims(g, i) ==
    IF i > Len(df_raw) THEN <<>>
    ELSE (IF i \in ConvertibleRows(g)
          THEN <<convert_row_to_mm(df_raw[i]).dims>> ELSE <<>>)
            \o ConvertibleDims(g, i + 1)

\* C12: for a group of zero or one dimension triples
\* evaluate_combination_for_group returns an empty mapping, and
\* process_dataframe records no combination verdict for the group: no entry
\* in combination_details, and the placeholder in the combination column of
\* its rows.
C12_SmallGroupGetsNoVerdict ==
    (pc = "done" /\ ret.kind = "result" /\ pallet_id_column) =>
        \A g \in PalletIds :
            Cardinality(ConvertibleRows(g)) <= 1 =>
                /\ evaluate_combination_for_group(ConvertibleDims(g, 1),
                        pallet_length, pallet_width, overhang, height_limits)
                     = EmptyDict
                /\ g \notin DOMAIN ret.combination_details
                /\ \A i \in 1..Len(df_raw) :
                      df_raw[i].pallet = g =>
                          ret.result_df[i].combination = PLACEHOLDER

\* What the code does for such groups: a group without a convertible row
\* gets no verdict, a group with exactly one gets an empty entry in
\* combination_details and the label "no" on each of its rows.
SmallGroupVerdictOfTheCode ==
    (pc = "done" /\ ret.kind = "result" /\ pallet_id_column) =>
        \A g \in PalletIds :
            /\ Cardinality(ConvertibleRows(g)) = 0 =>
                  /\ g \notin DOMAIN ret.combination_details
                  /\ \A i \in 1..Len(df_raw) :
                        df_raw[i].pallet = g =>
                            ret.result_df[i].combination = PLACEHOLDER
            /\ Cardinality(ConvertibleRows(g)) = 1 =>
                  /\ g \in DOMAIN ret.combination_details
                  /\ ret.combination_details[g].by_limit = EmptyDict
                  /\ ret.combination_details[g].selected_height = None
                  /\ \A i \in 1..Len(df_raw) :
                        df_raw[i].pallet = g =>
                            ret.result_df[i].combination = LABEL_NO

\* The positions in height_limits whose entry of a group is feasible.
FeasiblePositions(entry) ==
    { k \in 1..Len(height_limits) :
        /\ height_limits[k] \in DOMAIN entry.by_limit
        /\ entry.by_limit[height_limits[k]].ok }

\* C13: for each pallet group selected_height is the first height limit,
\* in the configured order, whose combination result has ok = True; it is
\* not set when no limit is feasible.
C13_SelectedHeightIsFirstFeasible ==
    (pc = "done" /\ ret.kind = "result") =>
        \A g \in DOMAIN ret.combination_details :
            LET entry == ret.combination_details[g]
            IN  IF FeasiblePositions(entry) = {}
                THEN entry.selected_height = None
                ELSE \E k \in FeasiblePositions(entry) :
                        /\ \A j \in FeasiblePositions(entry) : k <= j
                        /\ entry.selected_height = IntBox(height_limits[k])

\* C13 witness: a group is feasible at both limits, the lower limit is
\* configured first, and the lower limit is selected.
C13_Witness ==
    /\ pc = "done"
    /\ ret.kind = "result"
    /\ height_limits = <<1700, 1800>>
    /\ \E g \in DOMAIN ret.combination_details :
          /\ FeasiblePositions(ret.combination_details[g]) = {1, 2}
          /\ ret.combination_details[g].selected_height = IntBox(1700)

\* A group infeasible at the first configured limit and feasible at the
\* second gets the second.
C13_SecondLimitCase ==
    /\ pc = "done"
    /\ ret.kind = "result"
    /\ \E g \in DOMAIN ret.combination_details :
          /\ FeasiblePositions(ret.combination_details[g]) = {2}
          /\ ret.combination_details[g].selected_height = IntBox(height_limits[2])

\* A group of two boxes infeasible at every limit gets no recommendation.
C13_NoLimitCase ==
    /\ pc = "done"
    /\ ret.kind = "result"
    /\ \E g \in DOMAIN ret.combination_details :
          /\ DOMAIN ret.combination_details[g].by_limit # {}
          /\ FeasiblePositions(ret.combination_details[g]) = {}
          /\ ret.combination_details[g].selected_height = None

\* Each of the three cells of row i parses to a number.
RowParses(i) ==
    /\ parse_dimension_value(df_raw[i].length) # None
    /\ parse_dimension_value(df_raw[i].width) # None
    /\ parse_dimension_value(df_raw[i].height) # None

\* C19: a row with an unparseable dimension cell gets no entry in
\* metrics_map and is not among the boxes given to the group evaluation,
\* and its output row keeps the input cells and has None millimetre
\* dimensions, None maxima and the placeholder scheme for every limit and a
\* non-empty note; every row whose three cells parse has an empty note.
C19_UnparseableRowRetained ==
    (pc = "done" /\ ret.kind = "result") =>
        /\ \A i \in 1..Len(df_raw) :
              LET out == ret.result_df[i].row
              IN  IF RowParses(i) THEN out.note = ""
                  ELSE /\ i \notin DOMAIN ret.metrics_map
                       /\ out.raw = df_raw[i]
                       /\ out.length_mm = None
                       /\ out.width_mm = None
                       /\ out.height_mm = None
                       /\ \A limit \in LimitSet :
                             /\ out.max[limit] = None
                             /\ out.scheme[limit] = PLACEHOLDER
                       /\ out.note # ""
        /\ \A g \in DOMAIN ret.combination_details :
              ret.combination_details[g].by_limit
                  = evaluate_combination_for_group(ConvertibleDims(g, 1),
                        pallet_length, pallet_width, overhang, height_limits)

\* C19 witness: a group of one unparseable row and two parseable rows was
\* evaluated as a pair, feasible at some limit, and the unparseable row is
\* in the output with its note.
C19_Witness ==
    /\ pc = "done"
    /\ ret.kind = "result"
    /\ \E g \in DOMAIN ret.combination_details :
          /\ Cardinality({ i \in 1..Len(df_raw) : df_raw[i].pallet = g }) = 3
          /\ \E i \in 1..Len(df_raw) :
                /\ df_raw[i].pallet = g
                /\ ~ RowParses(i)
                /\ ret.result_df[i].row.note = PARSE_ERROR_NOTE
                /\ ret.result_df[i].row.length_mm = None
          /\ \E limit \in DOMAIN ret.combination_details[g].by_limit :
                ret.combination_details[g].by_limit[limit].ok

\* No orientation of row i's triple fits under the limit: none has
\* height <= limit with at least one box along each side of the pallet plus
\* overhang and at least one layer.
NoOrientationFits(i, limit) ==
    \A o \in PermutationSet(ret.metrics_map[i].dims_mm) :
        ~ /\ o[1] # 0 /\ o[2] # 0 /\ o[3] # 0
          /\ o[3] <= limit
          /\ FloorDiv(pallet_length + overhang, o[1]) >= 1
          /\ FloorDiv(pallet_width + overhang, o[2]) >= 1
          /\ FloorDiv(limit, o[3]) >= 1

\* C20: the maximum reported for a row and a limit is 0 exactly when the
\* row is parseable and no orientation fits at that limit, and then
\* best_by_height of that limit is None.
C20_ZeroMaximumIffNoFit ==
    (pc = "done" /\ ret.kind = "result") =>
        \A i \in 1..Len(df_raw) : \A limit \in LimitSet :
            /\ ret.result_df[i].row.max[limit] = IntBox(0) <=>
                  (i \in DOMAIN ret.metrics_map /\ NoOrientationFits(i, limit))
            /\ ret.result_df[i].row.max[limit] = IntBox(0) =>
                  ret.metrics_map[i].best_by_height[limit] = None

\* C20 witness: a parseable row has the maximum 0 and no summary under
\* 1700 and a positive maximum under 1800.
C20_Witness ==
    /\ pc = "done"
    /\ ret.kind = "result"
    /\ \E i \in DOMAIN ret.metrics_map :
          /\ ret.result_df[i].row.max[1700] = IntBox(0)
          /\ ret.metrics_map[i].best_by_height[1700] = None
          /\ ret.result_df[i].row.note = ""
          /\ ret.result_df[i].row.max[1800] # IntBox(0)
          /\ ret.metrics_map[i].best_by_height[1800] # None

(***************************************************************************)
(* Specification of the conversion of one cell: parse_dimension_value,     *)
(* then cm_to_mm, then mm_to_cm_string.                                    *)
(***************************************************************************)
TextChars == {"1", "2", "5", ",", ".", "-", "+", " ", "c"}

\* The text of scenario 5.
ScenarioText == <<"1", "2", ",", "5", " ", "c", "m">>

SampleCells ==
    {CellNone, CellBool(TRUE), CellBool(FALSE), CellNaN, CellOther,
     CellStr(ScenarioText)}
        \cup { CellInt(n) : n \in (-2)..MaxCm }
        \cup { CellFloat(h) : h \in (0 - MaxHundredths)..MaxHundredths }
        \cup { CellStr(t) : t \in SeqsUpTo(TextChars, MaxText) }

ConvertInit ==
    /\ raw_value \in SampleCells
    /\ parsed_cm = NoValue
    /\ converted_mm = 0
    /\ pc = "parse"
    /\ ret = NoValue
    /\ pallet_length = 0 /\ pallet_width = 0 /\ overhang = 0 /\ height_limit = 0
    /\ BestIdle
    /\ PairIdle
    /\ GroupIdle
    /\ FrameIdle
    /\ MetricsIdle
    /\ DrawIdle
    /\ AppIdle

\* parsed = parse_dimension_value(value); a row with a None stops here.
ConvertParse ==
    /\ pc = "parse"
    /\ parsed_cm' = parse_dimension_value(raw_value)
    /\ pc' = IF parse_dimension_value(raw_value) = None THEN "rejected" ELSE "convert"
    /\ UNCHANGED <<app_result, raw_value, converted_mm, ret, rectangles, metricsVars, palletVars,
                   height_limit, bestVars, pairVars, groupVars, frameVars>>

\* cm_to_mm(parsed): the millimetres, or the ValueError of int() of a NaN.
ConvertToMm ==
    /\ pc = "convert"
    /\ IF parsed_cm = NaN
       THEN /\ pc' = "raised"
            /\ ret' = RaisedValueError
            /\ UNCHANGED converted_mm
       ELSE /\ converted_mm' = cm_to_mm(parsed_cm)
            /\ pc' = "render"
            /\ UNCHANGED ret
    /\ UNCHANGED <<app_result, raw_value, parsed_cm, rectangles, metricsVars, palletVars,
                   height_limit, bestVars, pairVars, groupVars, frameVars>>

\* mm_to_cm_string(mm)
ConvertRender ==
    /\ pc = "render"
    /\ ret' = mm_to_cm_string(converted_mm)
    /\ pc' = "done"
    /\ UNCHANGED <<app_result, convertVars, rectangles, metricsVars, palletVars, height_limit,
                   bestVars, pairVars, groupVars, frameVars>>

ConvertNext == ConvertParse \/ ConvertToMm \/ ConvertRender

SpecConvert == ConvertInit /\ [][ConvertNext]_vars

(***************************************************************************)
(* Properties of the conversion (checked under SpecConvert).               *)
(***************************************************************************)
NumberChars == {"0", "1", "2", "3", "4", "5", "6", "7", "8", "9", "+", "-", "."}

\* The cleaned form of a text: commas turned into points, then everything
\* except digits, signs and points removed.
CleanedForm(text) ==
    LET Keep(c) == c \in NumberChars \/ c = ","
        kept == SelectSeq(text, Keep)
    IN  [i \in 1..Len(kept) |-> IF kept[i] = "," THEN "." ELSE kept[i]]

AllDigits(chars) == \A i \in 1..Len(chars) : chars[i] \in NumberChars \ {"+", "-", "."}

\* The ways to read a text as a number: an optional sign, digits, and
\* optionally a point and digits, with at least one digit in all.  A
\* reading is <<sign, digits before the point, digits after the point>>.
Readings(chars) ==
    LET signed == chars # <<>> /\ chars[1] \in {"+", "-"}
        body == IF signed THEN Tail(chars) ELSE chars
        sign == IF signed /\ chars[1] = "-" THEN -1 ELSE 1
    IN  { <<sign, SubSeq(body, 1, k), SubSeq(body, k + 2, Len(body))>> :
            k \in { j \in 0..Len(body) :
                      /\ AllDigits(SubSeq(body, 1, j))
                      /\ j < Len(body) => body[j + 1] = "."
                      /\ AllDigits(SubSeq(body, j + 2, Len(body)))
                      /\ j + Len(SubSeq(body, j + 2, Len(body))) >= 1 } }

\* The float f is the number of the reading r.
IsValueOf(f, r) ==
    /\ f # None
    /\ f.kind = "float"
    /\ f.num * Pow10(Len(r[3]))
          = r[1] * (DigitsValue(r[2]) * Pow10(Len(r[3])) + DigitsValue(r[3])) * f.den

Parsed == pc # "parse"

C21_MalformedTextCase ==
    /\ pc = "rejected"
    /\ raw_value.t = "str"
    /\ Len(CleanedForm(raw_value.s)) = 3
    /\ parsed_cm = None

C21_BooleanCase ==
    /\ pc = "rejected"
    /\ raw_value = CellBool(TRUE)

\* C22: for a float x = k / 10 with k an integer, cm_to_mm(x) = k and
\* mm_to_cm_string of it is x written with one decimal; for every float
\* cm_to_mm is an integer nearest to 10 x.
C22_RoundTrip ==
    (pc \in {"render", "done"} /\ raw_value.t = "float") =>
        LET h == raw_value.n
            k == h \div 10
            magnitude == IF k < 0 THEN 0 - k ELSE k
            tenths == <<"0", "1", "2", "3", "4", "5", "6", "7", "8", "9">>
        IN  /\ 10 * converted_mm - h <= 5
            /\ h - 10 * converted_mm <= 5
            /\ h % 10 = 0 =>
                  /\ converted_mm = k
                  /\ pc = "done" =>
                        ret = (IF k < 0 THEN "-" ELSE "")
                                \o ToString(magnitude \div 10) \o "."
                                \o tenths[(magnitude % 10) + 1]

\* C22 witness: -12.5 cm went to -125 mm and back to "-12.5".
C22_Witness ==
    /\ pc = "done"
    /\ raw_value = CellFloat(-1250)
    /\ converted_mm = -125
    /\ ret = "-12.5"

\* A value between two millimetres went to the nearer one.
C22_RoundingCase ==
    /\ pc = "done"
    /\ raw_value = CellFloat(17)
    /\ converted_mm = 2
    /\ ret = "0.2"

(***************************************************************************)
(* Pair feasibility and the height limit (checked under SpecFrame).        *)
(***************************************************************************)
\* The limits at which the feasibility of a pair can change: the sides of
\* the boxes and the sums of a side of each.
Thresholds(d_a, d_b) ==
    { d_a[i] : i \in 1..3 } \cup { d_b[i] : i \in 1..3 }
        \cup { d_a[i] + d_b[j] : i \in 1..3, j \in 1..3 }

\* The limits among `limits` at which the pair is feasible.
FeasibleLimits(d_a, d_b, limits) ==
    { h \in limits :
        evaluate_combination_pair(d_a, d_b, pallet_length, pallet_width,
                                  overhang, h).ok }

\* Every limit above a limit of the set is in the set.
UpwardClosed(feasible, limits) ==
    \A low \in feasible : \A high \in limits : low <= high => high \in feasible

\* The limits are configured in descending order.
DescendingLimits ==
    \A k \in 1..(Len(height_limits) - 1) : height_limits[k] >= height_limits[k + 1]

\* C28: a pair feasible at limit H is feasible at every H' >= H; so are
\* the entries recorded for a two-item group, and with the limits in
\* descending order the selected_height of such a group, when set, is the
\* first limit; no group is feasible at 1700 and infeasible at 1800.
C28_PairFeasibilityMonotone ==
    (pc = "done" /\ ret.kind = "result") =>
        \A g \in DOMAIN ret.combination_details :
            Cardinality(ConvertibleRows(g)) = 2 =>
                LET d == ConvertibleDims(g, 1)
                    entry == ret.combination_details[g]
                    probes == Thresholds(d[1], d[2]) \cup LimitSet
                IN  /\ UpwardClosed(FeasibleLimits(d[1], d[2], probes), probes)
                    /\ \A low \in LimitSet : \A high \in LimitSet :
                          (low <= high /\ entry.by_limit[low].ok)
                              => entry.by_limit[high].ok
                    /\ (DescendingLimits /\ entry.selected_height # None)
                          => entry.selected_height = IntBox(height_limits[1])
                    /\ LimitSet = {1800, 1700}
                          => ~(entry.by_limit[1700].ok /\ ~entry.by_limit[1800].ok)

\* C28 witness: with the default limits [1800, 1700] a group of two boxes
\* is feasible at 1800 and infeasible at 1700, and 1800 is selected.
C28_Witness ==
    /\ pc = "done" /\ ret.kind = "result"
    /\ height_limits = DEFAULT_PALLET_HEIGHT_LIMITS
    /\ \E g \in DOMAIN ret.combination_details :
          /\ Cardinality(ConvertibleRows(g)) = 2
          /\ ret.combination_details[g].by_limit[1800].ok
          /\ ~ret.combination_details[g].by_limit[1700].ok
          /\ ret.combination_details[g].selected_height = IntBox(1800)

\* C28 also covers a group feasible at both limits in descending order.
C28_BothLimitsCase ==
    /\ pc = "done" /\ ret.kind = "result"
    /\ height_limits = DEFAULT_PALLET_HEIGHT_LIMITS
    /\ \E g \in DOMAIN ret.combination_details :
          /\ Cardinality(ConvertibleRows(g)) = 2
          /\ ret.combination_details[g].by_limit[1700].ok
          /\ ret.combination_details[g].selected_height = IntBox(1800)

\* ... and a pair whose feasibility starts at a limit that is a side.
C28_ThresholdCase ==
    /\ pc = "done" /\ ret.kind = "result"
    /\ \E g \in DOMAIN ret.combination_details :
          /\ Cardinality(ConvertibleRows(g)) = 2
          /\ LET d == ConvertibleDims(g, 1)
                 probes == Thresholds(d[1], d[2])
             IN  /\ FeasibleLimits(d[1], d[2], probes) # {}
                 /\ FeasibleLimits(d[1], d[2], probes) # probes

(***************************************************************************)
(* Groups with unparseable rows (checked under SpecFrame).                 *)
(***************************************************************************)
\* The rows of group g, and those of them whose three cells parse.
RowsOf(g) == { i \in 1..Len(df_raw) : df_raw[i].pallet = g }
ParseableRowsOf(g) == { i \in RowsOf(g) : RowParses(i) }

\* The label that belongs to the entry recorded for a group.
LabelOfEntry(entry) ==
    IF entry.selected_height # None THEN LabelYes(entry.selected_height.value)
    ELSE IF \E l \in DOMAIN entry.by_limit : entry.by_limit[l].note # None
    THEN LABEL_MANUAL
    ELSE LABEL_NO

\* C29: the size of a group is the number of its parseable rows.  With two
\* parseable rows, whatever the number of unparseable ones, every limit has
\* the result of the pair heuristic on the two rows and no note; with one
\* parseable row the group is a single-item group (no per-limit result);
\* with none the group has no entry in combination_details; and the label of
\* an evaluated group is on all of its rows, the unparseable ones included.
C29_GroupSizeCountsParseableRows ==
    (pc = "done" /\ ret.kind = "result" /\ pallet_id_column) =>
        \A g \in PalletIds :
            LET n == Cardinality(ParseableRowsOf(g))
                d == ConvertibleDims(g, 1)
            IN  /\ g \in DOMAIN ret.combination_details <=> n > 0
                /\ n = 1 =>
                      /\ ret.combination_details[g].by_limit = EmptyDict
                      /\ ret.combination_details[g].selected_height = None
                /\ n = 2 =>
                      /\ DOMAIN ret.combination_details[g].by_limit = LimitSet
                      /\ \A l \in LimitSet :
                            LET r == evaluate_combination_pair(d[1], d[2],
                                         pallet_length, pallet_width, overhang, l)
                                e == ret.combination_details[g].by_limit[l]
                            IN  e.ok = r.ok /\ e.detail = r.detail /\ e.note = None
                /\ n > 0 =>
                      \A i \in RowsOf(g) :
                          ret.result_df[i].combination
                              = LabelOfEntry(ret.combination_details[g])

\* C29 witness: a group of three rows, exactly one of them unparseable,
\* was found feasible as a pair and the unparseable row carries the label.
C29_Witness ==
    /\ pc = "done" /\ ret.kind = "result" /\ pallet_id_column
    /\ \E g \in PalletIds :
          /\ Cardinality(RowsOf(g)) = 3
          /\ Cardinality(ParseableRowsOf(g)) = 2
          /\ ret.combination_details[g].selected_height # None
          /\ \E i \in RowsOf(g) :
                /\ ~RowParses(i)
                /\ ret.result_df[i].combination
                      = LabelYes(ret.combination_details[g].selected_height.value)

\* C29 also covers a group of two rows with one unparseable ...
C29_OneOfTwoCase ==
    /\ pc = "done" /\ ret.kind = "result" /\ pallet_id_column
    /\ \E g \in PalletIds :
          /\ Cardinality(RowsOf(g)) = 2
          /\ Cardinality(ParseableRowsOf(g)) = 1
          /\ \E i \in RowsOf(g) :
                ~RowParses(i) /\ ret.result_df[i].combination = LABEL_NO

\* ... and a group of several rows that are all unparseable.
C29_NoneParseableCase ==
    /\ pc = "done" /\ ret.kind = "result" /\ pallet_id_column
    /\ \E g \in PalletIds :
          /\ Cardinality(RowsOf(g)) >= 2
          /\ ParseableRowsOf(g) = {}
          /\ g \notin DOMAIN ret.combination_details

(***************************************************************************)
(* app.py main: the web pipeline, from the table read from the file to the *)
(* combination column and combination_details.  Its height limits are the  *)
(* constants 1800 and 1700.                                                *)
(***************************************************************************)
\* A cell pandas counts as missing.
IsMissing(cell) == cell.t \in {"None", "nan"}

\* The last cell of column `col` at or above row i that is not missing;
\* the cell of row i itself when there is none.
RECURSIVE LastValid(_, _, _, _)
LastValid(df, col, i, k) ==
    IF k = 0 THEN df[i][col]
    ELSE IF ~IsMissing(df[k][col]) THEN df[k][col]
    ELSE LastValid(df, col, i, k - 1)

\* df_raw.ffill(): every missing cell takes the last valid value above it.
Ffill(df) ==
    [i \in 1..Len(df) |->
        [col \in DOMAIN df[i] |->
            IF col = "pallet" THEN df[i][col] ELSE LastValid(df, col, i, i)]]

\* _convert_row_to_mm(row, mapping)
app_convert_row_to_mm(row) ==
    LET dims_cm == <<parse_dimension_value(row.length),
                     parse_dimension_value(row.width),
                     parse_dimension_value(row.height)>>
    IN  IF \E i \in 1..3 : dims_cm[i] = None THEN None
        ELSE IF \E i \in 1..3 : dims_cm[i] = NaN THEN RaisedValueError
        ELSE [kind |-> "list",
              dims |-> <<cm_to_mm(dims_cm[1]), cm_to_mm(dims_cm[2]),
                         cm_to_mm(dims_cm[3])>>]

\* for idx, row in df_raw.iterrows(): ... metrics_map[idx] = metrics
\* The map of the rows from i on added to mmap, or the exception raised.
RECURSIVE AppRowLoop(_, _, _, _, _, _)
AppRowLoop(df, i, mmap, p_length, p_width, ovh) ==
    IF i > Len(df) THEN [kind |-> "map", map |-> mmap]
    ELSE LET dims == app_convert_row_to_mm(df[i])
             metrics == compute_box_metrics(dims.dims, p_length, p_width, ovh,
                                            DEFAULT_PALLET_HEIGHT_LIMITS)
         IN  IF dims = None
             THEN AppRowLoop(df, i + 1, mmap, p_length, p_width, ovh)
             ELSE IF dims = RaisedValueError THEN RaisedValueError
             ELSE IF metrics = Raised THEN Raised
             ELSE AppRowLoop(df, i + 1, DictSet(mmap, i, metrics),
                             p_length, p_width, ovh)

\* The groups that get an entry in combination_details: those of at least
\* two rows with at least one row that has metrics.
AppEvaluatedGroups(df, mmap) ==
    { g \in { df[i].pallet : i \in 1..Len(df) } :
        /\ Len(GroupRowIndices(df, g)) >= 2
        /\ GroupDimsList(mmap, GroupRowIndices(df, g), 1) # <<>> }

AppCombinationDetails(df, mmap, p_length, p_width, ovh) ==
    [g \in AppEvaluatedGroups(df, mmap) |->
        LET r == GroupResult(df, mmap, p_length, p_width, ovh,
                             DEFAULT_PALLET_HEIGHT_LIMITS, g)
        IN  [by_limit |-> r,
             selected_height |->
                 GroupVerdict(r, DEFAULT_PALLET_HEIGHT_LIMITS).detail_height]]

AppCombinationColumn(df, mmap, p_length, p_width, ovh, with_groups) ==
    [i \in 1..Len(df) |->
        IF with_groups /\ df[i].pallet \in AppEvaluatedGroups(df, mmap)
        THEN GroupVerdict(GroupResult(df, mmap, p_length, p_width, ovh,
                                      DEFAULT_PALLET_HEIGHT_LIMITS, df[i].pallet),
                          DEFAULT_PALLET_HEIGHT_LIMITS).label
        ELSE PLACEHOLDER]

\* What main leaves for the table `table` read from the file.
AppPipeline(table, p_length, p_width, ovh, with_groups) ==
    IF Len(table) = 0 THEN [kind |-> "empty"]
    ELSE LET df == Ffill(table)
             rows == AppRowLoop(df, 1, EmptyDict, p_length, p_width, ovh)
         IN  IF rows.kind # "map" THEN rows
             ELSE [kind |-> "result",
                   combination |->
                       AppCombinationColumn(df, rows.map, p_length, p_width, ovh,
                                            with_groups),
                   combination_details |->
                       IF with_groups
                       THEN AppCombinationDetails(df, rows.map, p_length, p_width,
                                                  ovh)
                       ELSE EmptyDict]

(***************************************************************************)
(* Specification of the two pipelines on one table: process_dataframe with *)
(* the default limits, then main.                                          *)
(***************************************************************************)
AppInit ==
    /\ FrameInit
    /\ height_limits = DEFAULT_PALLET_HEIGHT_LIMITS

\* main() on the same table, pallet, overhang and column choice.
AppMain ==
    /\ pc \in {"done", "raised"}
    /\ app_result = NoValue
    /\ app_result' = AppPipeline(df_raw, pallet_length, pallet_width, overhang,
                                 pallet_id_column)
    /\ pc' = "compared"
    /\ UNCHANGED <<convertVars, rectangles, metricsVars, palletVars, height_limit,
                   ret, bestVars, pairVars, groupVars, frameVars>>

AppNext == FrameRow \/ FrameFinish \/ AppMain

SpecApp == AppInit /\ [][AppNext]_vars

(***************************************************************************)
(* The two aggregations compared (checked under SpecApp).                  *)
(***************************************************************************)
\* main aggregates the table as it was read: no missing cell is filled.
AggregatedAsRead == Len(df_raw) > 0 /\ Ffill(df_raw) = df_raw

\* Both pipelines returned a result for the table.
BothReturned ==
    pc = "compared" /\ ret.kind = "result" /\ app_result.kind = "result"

\* C30: for every table, with the default limits [1800, 1700], main and
\* process_dataframe give every row the same combination label and record
\* the same group ids in combination_details with the same per-limit
\* results and selected_height, also for groups of a single row.
C30_AggregationsAgree ==
    (pc = "compared" /\ AggregatedAsRead) =>
        /\ ret.kind = "result" <=> app_result.kind = "result"
        /\ ret.kind = "result" =>
              /\ \A i \in 1..Len(df_raw) :
                    ret.result_df[i].combination = app_result.combination[i]
              /\ DOMAIN ret.combination_details
                    = DOMAIN app_result.combination_details
              /\ \A g \in DOMAIN ret.combination_details
                            \cap DOMAIN app_result.combination_details :
                    ret.combination_details[g] = app_result.combination_details[g]

\* What the code does: the pipelines agree on every group of at least two
\* rows and on every group without a parseable row; for a group of a
\* single parseable row process_dataframe records an empty entry and the
\* label "no", main records nothing and leaves the placeholder.
AggregationsAgreeExceptSingleRowGroups ==
    (pc = "compared" /\ AggregatedAsRead) =>
        /\ ret.kind = "result" <=> app_result.kind = "result"
        /\ (ret.kind = "result" /\ pallet_id_column) =>
              \A g \in PalletIds :
                  IF Cardinality(RowsOf(g)) = 1 /\ Cardinality(ParseableRowsOf(g)) = 1
                  THEN /\ g \in DOMAIN ret.combination_details
                       /\ g \notin DOMAIN app_result.combination_details
                       /\ \A i \in RowsOf(g) :
                             /\ ret.result_df[i].combination = LABEL_NO
                             /\ app_result.combination[i] = PLACEHOLDER
                  ELSE /\ g \in DOMAIN ret.combination_details
                          <=> g \in DOMAIN app_result.combination_details
                       /\ g \in DOMAIN ret.combination_details =>
                             ret.combination_details[g]
                                 = app_result.combination_details[g]
                       /\ \A i \in RowsOf(g) :
                             ret.result_df[i].combination = app_result.combination[i]
        /\ (ret.kind = "result" /\ ~pallet_id_column) =>
              /\ app_result.combination_details = EmptyDict
              /\ \A i \in 1..Len(df_raw) :
                    ret.result_df[i].combination = app_result.combination[i]

\* Both pipelines ran on a table with a group of a single parseable row.
SingleRowGroupCompared ==
    /\ BothReturned /\ pallet_id_column /\ AggregatedAsRead
    /\ \E g \in PalletIds :
          Cardinality(RowsOf(g)) = 1 /\ Cardinality(ParseableRowsOf(g)) = 1

\* Both pipelines ran on a table with a feasible pair, and agree.
FeasiblePairCompared ==
    /\ BothReturned /\ pallet_id_column /\ AggregatedAsRead
    /\ \E g \in DOMAIN app_result.combination_details :
          /\ app_result.combination_details[g].selected_height # None
          /\ ret.combination_details[g] = app_result.combination_details[g]

====
